---- MODULE Spec2Model ----
(***************************************************************************)
(* A model of tydi's physical streams, signal lists, the common hardware   *)
(* representation, its directional split and the VHDL back-end.            *)
(*                                                                         *)
(* Values: an Option is a sequence of length 0 (None) or 1 (Some(x)).      *)
(* Identifiers are strings; cat! joins its non-empty parts with "_".       *)
(***************************************************************************)
EXTENDS Integers, Sequences, FiniteSets, TLC

VARIABLES
    ppc,      \* physical stream machine: "idle", "new", "listed", "iterated"
    ps,       \* the PhysicalStream under consideration
    sl,       \* Option of the SignalList derived from ps
    sigs,     \* the Vec<Signal> collected from (&sl).into_iter()
    counts    \* Option of the value returned by ps.bit_count()

physVars == <<ppc, ps, sl, sigs, counts>>

VARIABLES
    spc,      \* split machine: "idle", "new", "type", "array", "port"
    st,       \* the Type handed to split()
    sp,       \* the Port handed to Port::split, as an Option
    sres      \* the pair (down, up) returned by split(), each an Option

splitVars == <<spc, st, sp, sres>>

VARIABLES
    gpc,      \* generate: "idle", "new", "lib", "declare", "write", "opened",
              \*           "wrappers", "returned"
    pkg,      \* the Package of the library at hand
    pfile0,   \* the package file of that library before its turn, an Option
    pfile,    \* the package file of that library now
    type_ids, \* HashMap of Package::declare
    dresult,  \* result of Package::declare, as built so far
    dci,      \* index of the component Package::declare is at
    dti,      \* index of the type of that component it is at
    gret      \* what generate returned, an Option of a Result

genVars == <<gpc, pkg, pfile0, pfile, type_ids, dresult, dci, dti, gret>>

\* an interface of a streamlet, rendered as ports
VARIABLES
    ipc,      \* "idle", "new", "canonical", "fancy", "split"
    iface,    \* the Interface: its name, its mode and its stream
    cports,   \* Interface::canonical: one port per signal
    fports,   \* Interface::fancy: one port per stream
    halves    \* Port::split of each fancy port, as Vec<Port>::declare does

portVars == <<ipc, iface, cports, fports, halves>>

\* two complexities, compared
VARIABLES
    cpc,      \* "idle", "new", "eq", "cmp"
    ca,       \* self: the level of a Complexity
    cb,       \* other
    ceq,      \* what eq returned, an Option
    ccmp      \* what cmp returned, an Option

cmpVars == <<cpc, ca, cb, ceq, ccmp>>

\* the names of streamlets and interfaces, and the type identifiers made of them
VARIABLES
    npc,      \* "idle", "new", "more", "named", "typed", "rejected"
    nraw,     \* the two strings handed to Name::try_new: streamlet, interface
    npairs,   \* the (streamlet, interface) pairs of Names accepted so far
    nids      \* the type identifier of the fancy record of each pair

nameVars == <<npc, nraw, npairs, nids>>

\* a library, rendered as packages
VARIABLES
    lpc,      \* "idle", "new", "canonical", "fancy"
    lib,      \* the Library: its name and its streamlets with their interfaces
    cpkg,     \* Library::canonical, an Option
    fpkg      \* Library::fancy, an Option

libVars == <<lpc, lib, cpkg, fpkg>>

\* the usings of a package or of an architecture, declared by two builds
VARIABLES
    upc,      \* "idle", "new", "first", "second"
    ukind,    \* "package" or "architecture"
    usings,   \* Usings: an IndexMap from library to the HashSet of its usings
    ucalls,   \* number of add_using / add_declaration / add_statement calls
    utext1,   \* declare_usings of the first build, an Option
    utext2    \* declare_usings of a second build of the same value, an Option

useVars == <<upc, ukind, usings, ucalls, utext1, utext2>>

\* packages rendered in parallel, each by its own thread
VARIABLES
    SLICE_COUNTER, \* the static AtomicU32 of logical_slice
    tpc,           \* per thread: "ready" or "counted"; "idle" when not in use
    slice_count,   \* per thread: the value fetch_add returned
    package_components \* per thread: the identifiers of package.components

sliceVars == <<SLICE_COUNTER, tpc, slice_count, package_components>>

\* PhysicalStream::try_new
VARIABLES
    tnpc,    \* "args" before the call, "returned" after it; "idle" when not in use
    tnargs,  \* the arguments: element_fields, element_lanes, dimensionality, user
    tnres    \* the Result returned

tryVars == <<tnpc, tnargs, tnres>>

\* Multilane for Type :: with_throughput
VARIABLES
    wpc,     \* "args" before the call, "returned" after it; "idle" when not in use
    wtyp,    \* the Type it is called on
    wid,     \* identity
    wthr,    \* throughput, in units of 1 / ThroughputDen
    wres     \* the outcome

laneVars == <<wpc, wtyp, wid, wthr, wres>>

\* the stages that render and declare: Stream::fancy, DeclareType, Declare
VARIABLES
    xpc,     \* "new", then "declared", "ports" or "fancy"; "idle" when not in use
    xtyp,    \* the Type that is declared, by itself or as the type of a port
    xthr,    \* the throughput of the stream, in units of 1 / ThroughputDen
    xres     \* the outcome of the stage, an Option

stageVars == <<xpc, xtyp, xthr, xres>>

\* a PortMapping of a component
VARIABLES
    mpc,              \* "new", "mapping", "finished"; "idle" when not in use
    mcomp,            \* the ports of the component
    mports,           \* ports: the object declarations, by identifier, in order
    mappings,         \* mappings: identifier -> assigned object
    generics,         \* generics: the identifiers, in order
    generic_mappings, \* generic_mappings: identifier -> assigned object
    mcall,            \* the last call of map_port or map_generic, an Option
    mfinish           \* the result of finish, an Option

mapVars == <<mpc, mcomp, mports, mappings, generics, generic_mappings, mcall, mfinish>>

\* a port that is split and whose type is declared
VARIABLES
    qpc,     \* "new", "split", "declared"; "idle" when not in use
    qport,   \* the Port
    qhalves, \* the pair returned by Port::split
    qdecl    \* the result of declare(true) of the type of the port, an Option

suffixVars == <<qpc, qport, qhalves, qdecl>>

\* the Fields of a physical stream under construction
VARIABLES
    fpc,     \* "new"; "idle" when not in use
    fmap,    \* the IndexMap of the Fields: a sequence of [name, bits]
    fbefore, \* the Fields before the last call of insert
    fcall,   \* the last call of insert and its result, an Option
    fcount   \* the number of calls made

fieldsVars == <<fpc, fmap, fbefore, fcall, fcount>>

\* the names of the ports of a canonical component
VARIABLES
    kpc,     \* "new", "canonical"; "idle" when not in use
    kifaces, \* the interfaces of the streamlet: name, mode, path, leaf
    kports   \* the names of the ports of the component, each a sequence

canonVars == <<kpc, kifaces, kports>>

\* the variables outside each machine
notPhys == <<splitVars, genVars, portVars, cmpVars, nameVars, libVars, useVars, sliceVars, tryVars, laneVars, stageVars, mapVars, suffixVars, fieldsVars, canonVars>>
notSplit == <<physVars, genVars, portVars, cmpVars, nameVars, libVars, useVars, sliceVars, tryVars, laneVars, stageVars, mapVars, suffixVars, fieldsVars, canonVars>>
notGen == <<physVars, splitVars, portVars, cmpVars, nameVars, libVars, useVars, sliceVars, tryVars, laneVars, stageVars, mapVars, suffixVars, fieldsVars, canonVars>>
notPort == <<physVars, splitVars, genVars, cmpVars, nameVars, libVars, useVars, sliceVars, tryVars, laneVars, stageVars, mapVars, suffixVars, fieldsVars, canonVars>>
notCmp == <<physVars, splitVars, genVars, portVars, nameVars, libVars, useVars, sliceVars, tryVars, laneVars, stageVars, mapVars, suffixVars, fieldsVars, canonVars>>
notName == <<physVars, splitVars, genVars, portVars, cmpVars, libVars, useVars, sliceVars, tryVars, laneVars, stageVars, mapVars, suffixVars, fieldsVars, canonVars>>
notLib == <<physVars, splitVars, genVars, portVars, cmpVars, nameVars, useVars, sliceVars, tryVars, laneVars, stageVars, mapVars, suffixVars, fieldsVars, canonVars>>
notUse == <<physVars, splitVars, genVars, portVars, cmpVars, nameVars, libVars, sliceVars, tryVars, laneVars, stageVars, mapVars, suffixVars, fieldsVars, canonVars>>
notSlice == <<physVars, splitVars, genVars, portVars, cmpVars, nameVars, libVars, useVars, tryVars, laneVars, stageVars, mapVars, suffixVars, fieldsVars, canonVars>>
notTry == <<physVars, splitVars, genVars, portVars, cmpVars, nameVars, libVars, useVars, sliceVars, laneVars, stageVars, mapVars, suffixVars, fieldsVars, canonVars>>
notLane == <<physVars, splitVars, genVars, portVars, cmpVars, nameVars, libVars, useVars, sliceVars, tryVars, stageVars, mapVars, suffixVars, fieldsVars, canonVars>>
notStage == <<physVars, splitVars, genVars, portVars, cmpVars, nameVars, libVars, useVars, sliceVars, tryVars, laneVars, mapVars, suffixVars, fieldsVars, canonVars>>
notMap == <<physVars, splitVars, genVars, portVars, cmpVars, nameVars, libVars, useVars, sliceVars, tryVars, laneVars, stageVars, suffixVars, fieldsVars, canonVars>>
notSuffix == <<physVars, splitVars, genVars, portVars, cmpVars, nameVars, libVars, useVars, sliceVars, tryVars, laneVars, stageVars, mapVars, fieldsVars, canonVars>>
notFields == <<physVars, splitVars, genVars, portVars, cmpVars, nameVars, libVars, useVars, sliceVars, tryVars, laneVars, stageVars, mapVars, suffixVars, canonVars>>
notCanon == <<physVars, splitVars, genVars, portVars, cmpVars, nameVars, libVars, useVars, sliceVars, tryVars, laneVars, stageVars, mapVars, suffixVars, fieldsVars>>

None == <<>>
Some(x) == <<x>>

\* ----------------------------------------------------------------- bounds

MaxWidth == 1
MaxFields == 2
MaxUserFields == 1
MaxLanes == 3
MaxDim == 1
MaxMajor == 8
MaxMinor == 1
\* NonNegative is u32; the model keeps the wrap-around with a word of
\* WordBits bits, so that values next to the largest one are within reach.
WordBits == 8
\* the largest number of fields of a record of the split machine: of the
\* root record, and of a record nested in it
MaxRootFields == 2
MaxNestedFields == 1
\* the largest number of ports of a package, over all its components
MaxPorts == 3

\* complexity levels: number of components and largest component
MaxLevelLen == 2
MaxLevel == 3

\* the longest string handed to Name::try_new
MaxNameLen == 3

\* streamlets of a library and interfaces of a streamlet
MaxStreamlets == 2
MaxInterfaces == 2

\* calls that add usings to an architecture
MaxUsingCalls == 2

\* threads that render a package each, and calls of logical_slice per package
MaxThreads == 2
MaxSlices == 3

\* user fields handed to PhysicalStream::try_new
MaxTryUserFields == 2

\* ports of the component a PortMapping is made of
MaxMapPorts == 2

\* the number of calls of Fields::insert
MaxInserts == 4

\* ------------------------------------------------------- program constants

StaiMajor == 6
EndiMajor == 5
StrbMajor == 7

\* ------------------------------------------------------------ physical.rs

RECURSIVE Pow2(_)
Pow2(k) == IF k = 0 THEN 1 ELSE 2 * Pow2(k - 1)

\* the number of values of NonNegative, and its largest value
Word == Pow2(WordBits)
MaxWord == Word - 1

\* + and * of NonNegative as a release build computes them
Add32(a, b) == (a + b) % Word
Mul32(a, b) == (a * b) % Word

\* util::log2_ceil: the least k with 2^k >= n.
log2_ceil(n) == CHOOSE k \in 0..32 : Pow2(k) >= n /\ (k = 0 \/ Pow2(k - 1) < n)

\* Complexity::major
major(c) == c[1]

\* .values().map(|b| b.get()).sum::<NonNegative>()
RECURSIVE SumBits(_)
SumBits(fields) ==
    IF fields = <<>> THEN 0
    ELSE Add32(fields[1].bits, SumBits(Tail(fields)))

data_bit_count(p) == Mul32(SumBits(p.element_fields), p.element_lanes)

last_bit_count(p) == p.dimensionality

stai_bit_count(p) ==
    IF major(p.complexity) >= StaiMajor /\ p.element_lanes > 1
    THEN log2_ceil(p.element_lanes)
    ELSE 0

endi_bit_count(p) ==
    IF (major(p.complexity) >= EndiMajor \/ p.dimensionality >= 1)
       /\ p.element_lanes > 1
    THEN log2_ceil(p.element_lanes)
    ELSE 0

\* PhysicalStream::strb_bit_count, looking at the complexity only
strb_bit_count_major_only(p) ==
    IF major(p.complexity) >= StrbMajor THEN p.element_lanes ELSE 0

strb_bit_count(p) ==
    IF major(p.complexity) >= StrbMajor \/ p.dimensionality >= 1
    THEN p.element_lanes
    ELSE 0

user_bit_count(p) == SumBits(p.user)

\* The same sums without the word: an addition or multiplication of a debug
\* build panics exactly when its exact result does not fit the word.
RECURSIVE ExactSum(_)
ExactSum(fields) ==
    IF fields = <<>> THEN 0 ELSE fields[1].bits + ExactSum(Tail(fields))

DataOverflows(p) == ExactSum(p.element_fields) * p.element_lanes > MaxWord
UserOverflows(p) == ExactSum(p.user) > MaxWord

\* the closure opt of PhysicalStream::signal_list
opt(x) == IF x = 0 THEN None ELSE Some(x)

\* signal_list with the stai width taken from the endi count
signal_list_stai_from_endi(p) ==
    [ data |-> opt(data_bit_count(p)),
      last |-> opt(last_bit_count(p)),
      stai |-> opt(endi_bit_count(p)),
      endi |-> opt(endi_bit_count(p)),
      strb |-> opt(strb_bit_count(p)),
      user |-> opt(user_bit_count(p)) ]

signal_list(p) ==
    [ data |-> opt(data_bit_count(p)),
      last |-> opt(last_bit_count(p)),
      stai |-> opt(stai_bit_count(p)),
      endi |-> opt(endi_bit_count(p)),
      strb |-> opt(strb_bit_count(p)),
      user |-> opt(user_bit_count(p)) ]

bit_count(p) ==
    Add32(Add32(Add32(Add32(Add32(data_bit_count(p), last_bit_count(p)),
                            stai_bit_count(p)),
                      endi_bit_count(p)),
                strb_bit_count(p)),
          user_bit_count(p))

Scalar == [kind |-> "Scalar"]
Vector(w) == [kind |-> "Vector", w |-> w]

\* Signal::opt_vec
opt_vec(name, origin, width) ==
    IF width = None THEN None
    ELSE Some([name |-> name, origin |-> origin, width |-> Vector(width[1])])

\* the ready signal built with the origin of valid
SignalList_ready_as_source(s) ==
    [name |-> "ready", origin |-> "Source", width |-> Scalar]

SignalList_valid(s) == [name |-> "valid", origin |-> "Source", width |-> Scalar]
SignalList_ready(s) == [name |-> "ready", origin |-> "Sink", width |-> Scalar]
SignalList_data(s) == opt_vec("data", "Source", s.data)
SignalList_last(s) == opt_vec("last", "Source", s.last)
SignalList_stai(s) == opt_vec("stai", "Source", s.stai)
SignalList_endi(s) == opt_vec("endi", "Source", s.endi)
SignalList_strb(s) == opt_vec("strb", "Source", s.strb)
SignalList_user(s) == opt_vec("user", "Source", s.user)

unwrap_or(o, d) == IF o = None THEN d ELSE o[1]

\* opt_bit_count without the user signal
opt_bit_count_no_user(s) ==
    LET x == Add32(Add32(Add32(Add32(unwrap_or(s.data, 0),
                                     unwrap_or(s.last, 0)),
                               unwrap_or(s.stai, 0)),
                         unwrap_or(s.endi, 0)),
                   unwrap_or(s.strb, 0))
    IN  IF x = 0 THEN None ELSE Some(x)

opt_bit_count(s) ==
    LET x == Add32(Add32(Add32(Add32(Add32(unwrap_or(s.data, 0),
                                           unwrap_or(s.last, 0)),
                                     unwrap_or(s.stai, 0)),
                               unwrap_or(s.endi, 0)),
                         unwrap_or(s.strb, 0)),
                   unwrap_or(s.user, 0))
    IN  IF x = 0 THEN None ELSE Some(x)

SignalList_bit_count(s) == unwrap_or(opt_bit_count(s), 0)

ExactTotal(p) ==
    ExactSum(p.element_fields) * p.element_lanes + last_bit_count(p)
        + stai_bit_count(p) + endi_bit_count(p) + strb_bit_count(p)
        + ExactSum(p.user)

TotalOverflows(p) == ExactTotal(p) > MaxWord

\* the array with strb placed before endi
SignalArray_strb_first(s) ==
    << Some(SignalList_valid(s)), Some(SignalList_ready(s)),
       SignalList_data(s), SignalList_last(s), SignalList_stai(s),
       SignalList_strb(s), SignalList_endi(s), SignalList_user(s) >>

\* the array of optional signals that into_iter filters
SignalArray(s) ==
    << Some(SignalList_valid(s)), Some(SignalList_ready(s)),
       SignalList_data(s), SignalList_last(s), SignalList_stai(s),
       SignalList_endi(s), SignalList_strb(s), SignalList_user(s) >>

\* .iter().filter(|o| o.is_some()).map(|s| s.clone().unwrap()).collect()
RECURSIVE FilterSome(_)
FilterSome(arr) ==
    IF arr = <<>> THEN <<>>
    ELSE (IF arr[1] = None THEN <<>> ELSE <<arr[1][1]>>) \o FilterSome(Tail(arr))

into_iter(s) == FilterSome(SignalArray(s))

\* ------------------------------------------- generator/common: the types

\* cat!: the non-empty parts joined with "_"
cat(a, b) == IF a = "" THEN b ELSE IF b = "" THEN a ELSE a \o "_" \o b

Bit == [kind |-> "Bit"]
BitVec(w) == [kind |-> "BitVec", width |-> w]
TRecord(rec) == [kind |-> "Record", rec |-> rec]
TUnion(rec) == [kind |-> "Union", rec |-> rec]
TArray(arr) == [kind |-> "Array", arr |-> arr]

\* Record::new, Array::new, Field::new, Port::new
Record(id, fields) == [id |-> id, fields |-> fields]
Array(id, typ, width) == [id |-> id, typ |-> typ, width |-> width]
Field(name, typ, reversed, doc) ==
    [name |-> name, typ |-> typ, reversed |-> reversed, doc |-> doc]
Port(name, mode, typ) == [name |-> name, mode |-> mode, typ |-> typ]

IsRec(t) == t.kind \in {"Record", "Union"}

\* Reversed for Mode
ModeReversed(m) == IF m = "In" THEN "Out" ELSE "In"

\* the Some values of a sequence of Options, in order
RECURSIVE Flatten(_)
Flatten(ss) == IF ss = <<>> THEN <<>> ELSE ss[1] \o Flatten(Tail(ss))

RECURSIVE TypeHasReversed(_)
\* Record::has_reversed: some field at some depth is reversed
RecordHasReversed(rec) ==
    \E i \in 1..Len(rec.fields) :
        rec.fields[i].reversed \/ TypeHasReversed(rec.fields[i].typ)

\* Type::has_reversed
TypeHasReversed(t) ==
    CASE IsRec(t) -> RecordHasReversed(t.rec)
      [] t.kind = "Array" -> TypeHasReversed(t.arr.typ)
      [] OTHER -> FALSE

RECURSIVE append_name_nested(_, _)
\* Record::append_name_nested: the suffix is appended to the identifier of
\* the record and of every record nested in its fields
append_name_nested(rec, with) ==
    Record(cat(rec.id, with),
           [i \in 1..Len(rec.fields) |->
               LET f == rec.fields[i] IN
               CASE f.typ.kind = "Record" ->
                        Field(f.name, TRecord(append_name_nested(f.typ.rec, with)),
                              f.reversed, f.doc)
                 [] f.typ.kind = "Union" ->
                        Field(f.name, TUnion(append_name_nested(f.typ.rec, with)),
                              f.reversed, f.doc)
                 [] OTHER -> f])

\* ----------------------------------------------- generator/vhdl: Split

RECURSIVE TypeSplit(_), FieldSplit(_), RecordSplit(_)

\* An Option is a sequence of at most one value, so Option::map is the
\* image of that sequence.

\* the closure f of Record::split
NoneIfEmpty(rec) == IF rec.fields = <<>> THEN None ELSE Some(rec)

\* Record::split with the reversed parts inserted into the down record too
RecordSplit_up_into_down(rec) ==
    LET parts == [i \in 1..Len(rec.fields) |-> FieldSplit(rec.fields[i])]
        down_rec == Record(rec.id,
                           Flatten([i \in 1..Len(parts) |->
                                       parts[i][1] \o parts[i][2]]))
        up_rec == Record(rec.id, Flatten([i \in 1..Len(parts) |-> parts[i][2]]))
    IN  <<NoneIfEmpty(down_rec), NoneIfEmpty(up_rec)>>

\* impl Split for Record
RecordSplit(rec) ==
    LET parts == [i \in 1..Len(rec.fields) |-> FieldSplit(rec.fields[i])]
        down_rec == Record(rec.id, Flatten([i \in 1..Len(parts) |-> parts[i][1]]))
        up_rec == Record(rec.id, Flatten([i \in 1..Len(parts) |-> parts[i][2]]))
    IN  <<NoneIfEmpty(down_rec), NoneIfEmpty(up_rec)>>

\* Field::split without the swap of a reversed field
FieldSplit_no_swap(f) ==
    LET s == TypeSplit(f.typ)
        NewField(t) == Field(f.name, t, FALSE, None)
    IN  <<[i \in 1..Len(s[1]) |-> NewField(s[1][i])],
          [i \in 1..Len(s[2]) |-> NewField(s[2][i])]>>

\* impl Split for Field
FieldSplit(f) ==
    LET s == TypeSplit(f.typ)
        NewField(t) == Field(f.name, t, FALSE, None)
        result == <<[i \in 1..Len(s[1]) |-> NewField(s[1][i])],
                    [i \in 1..Len(s[2]) |-> NewField(s[2][i])]>>
    IN  IF f.reversed THEN <<result[2], result[1]>> ELSE result

\* Type::split with the halves of a union wrapped as records
TypeSplit_union_as_record(t) ==
    CASE IsRec(t) ->
            LET s == RecordSplit(t.rec)
            IN  <<[i \in 1..Len(s[1]) |-> TRecord(s[1][i])],
                  [i \in 1..Len(s[2]) |-> TRecord(s[2][i])]>>
      [] OTHER -> <<Some(t), None>>

\* impl Split for Type
TypeSplit(t) ==
    CASE t.kind = "Record" ->
            LET s == RecordSplit(t.rec)
            IN  <<[i \in 1..Len(s[1]) |-> TRecord(s[1][i])],
                  [i \in 1..Len(s[2]) |-> TRecord(s[2][i])]>>
      [] t.kind = "Union" ->
            LET s == RecordSplit(t.rec)
            IN  <<[i \in 1..Len(s[1]) |-> TUnion(s[1][i])],
                  [i \in 1..Len(s[2]) |-> TUnion(s[2][i])]>>
      [] OTHER -> <<Some(t), None>>

\* impl Split for Array
ArraySplit(arr) ==
    LET s == TypeSplit(arr.typ)
        NewArray(t) == Array(arr.id, t, arr.width)
    IN  <<[i \in 1..Len(s[1]) |-> NewArray(s[1][i])],
          [i \in 1..Len(s[2]) |-> NewArray(s[2][i])]>>

\* the match of Port::split that suffixes the names of a record type
SuffixType(t, with) ==
    CASE t.kind = "Record" -> TRecord(append_name_nested(t.rec, with))
      [] t.kind = "Union" -> TUnion(append_name_nested(t.rec, with))
      [] OTHER -> t

\* impl Split for Port
PortSplit(p) ==
    LET s == TypeSplit(p.typ)
        Down(t) == Port(cat(p.name, "dn"), p.mode, SuffixType(t, "dn"))
        Up(t) == Port(cat(p.name, "up"), ModeReversed(p.mode), SuffixType(t, "up"))
    IN  <<[i \in 1..Len(s[1]) |-> Down(s[1][i])],
          [i \in 1..Len(s[2]) |-> Up(s[2][i])]>>

\* --------------------------------------------- generator/vhdl: declarations

\* A Result<String> is a record: err is None and text holds the declarations
\* in the order they are written, or err is Some(message).
Ok(text) == [err |-> None, text |-> text]
Err(msg) == [err |-> Some(msg), text |-> <<>>]

\* the ? operator on r followed by more text
Then(r, more) ==
    IF r.err # None THEN r
    ELSE IF more.err # None THEN more
    ELSE Ok(r.text \o more.text)

\* VHDLIdentifier for Record and for Array
vhdl_identifier(x) == cat(x.id, "type")

\* Type::declare of the types without a declaration of their own
BitDeclare(t) ==
    IF t.kind = "Bit" THEN "std_logic"
    ELSE "std_logic_vector("
            \o ToString((IF t.width = 0 THEN 1 ELSE t.width) - 1) \o " downto 0)"

\* VHDLIdentifier for Type
TypeIdentifier(t) ==
    IF t.kind \in {"Record", "Union"} THEN vhdl_identifier(t.rec)
    ELSE IF t.kind = "Array" THEN vhdl_identifier(t.arr)
    ELSE BitDeclare(t)

\* Array::append_name_nested
ArrayAppendName(arr, with) ==
    Array(cat(arr.id, with), SuffixType(arr.typ, with), arr.width)

\* the panic of unwrap() on None
UnwrapNone == "called Option::unwrap() on a None value"

RECURSIVE declare_rec(_), declare_arr(_), RecordDeclare(_, _), ArrayDeclare(_, _)
RECURSIVE Children(_), DeclareRecordHalves(_, _), DeclareArrayHalves(_, _)

\* the children of declare_rec: the declarations of the nested types of the
\* fields, in field order
Children(fields) ==
    IF fields = <<>> THEN Ok(<<>>)
    ELSE LET t == fields[1].typ
             first == CASE IsRec(t) -> RecordDeclare(t.rec, FALSE)
                        [] t.kind = "Array" -> ArrayDeclare(t.arr, FALSE)
                        [] OTHER -> Ok(<<>>)
             rest == Children(Tail(fields))
         IN  Then(first, rest)

\* fn declare_rec with the record before its children
declare_rec_record_first(rec) ==
    LET children == Children(rec.fields)
        this == Ok(<<[id |-> vhdl_identifier(rec),
                      fields |-> [i \in 1..Len(rec.fields) |->
                                     [name |-> rec.fields[i].name,
                                      typ |-> TypeIdentifier(rec.fields[i].typ),
                                      doc |-> rec.fields[i].doc]]]>>)
    IN  Then(this, children)

\* fn declare_rec: the children, then the record itself
declare_rec(rec) ==
    LET children == Children(rec.fields)
        this == Ok(<<[id |-> vhdl_identifier(rec),
                      fields |-> [i \in 1..Len(rec.fields) |->
                                     [name |-> rec.fields[i].name,
                                      typ |-> TypeIdentifier(rec.fields[i].typ),
                                      doc |-> rec.fields[i].doc]]]>>)
    IN  Then(children, this)

\* fn declare_arr
declare_arr(arr) ==
    LET t == arr.typ
        children == CASE IsRec(t) -> declare_rec(t.rec)
                      [] t.kind = "Array" -> ArrayDeclare(t.arr, FALSE)
                      [] OTHER -> Ok(<<>>)
        this == Ok(<<[id |-> vhdl_identifier(arr), of |-> TypeIdentifier(t),
                      from |-> 0, to |-> arr.width - 1]>>)
    IN  IF t.kind = "Bit" THEN Err("Unexpected, Bit in Array")
        ELSE Then(children, this)

\* the suffix of the halves of a split type
HalfSuffix(is_root_type, half) == IF is_root_type THEN half ELSE ""

\* the branch of Record::declare for a record with reversed fields: both
\* halves are unwrapped, suffixed and declared
DeclareRecordHalves(s, is_root_type) ==
    IF s[1] = None \/ s[2] = None THEN Err(UnwrapNone)
    ELSE Then(declare_rec(append_name_nested(
                  s[1][1], HalfSuffix(is_root_type, "dn"))),
              declare_rec(append_name_nested(
                  s[2][1], HalfSuffix(is_root_type, "up"))))

\* DeclareType for Record
RecordDeclare(rec, is_root_type) ==
    IF RecordHasReversed(rec)
    THEN DeclareRecordHalves(RecordSplit(rec), is_root_type)
    ELSE declare_rec(rec)

\* the same branch of Array::declare
DeclareArrayHalves(s, is_root_type) ==
    IF s[1] = None \/ s[2] = None THEN Err(UnwrapNone)
    ELSE Then(declare_arr(ArrayAppendName(
                  s[1][1], HalfSuffix(is_root_type, "dn"))),
              declare_arr(ArrayAppendName(
                  s[2][1], HalfSuffix(is_root_type, "up"))))

\* DeclareType for Array
ArrayDeclare(arr, is_root_type) ==
    IF TypeHasReversed(arr.typ)
    THEN DeclareArrayHalves(ArraySplit(arr), is_root_type)
    ELSE declare_arr(arr)

\* DeclareType for Type, of a type that has a declaration
TypeDeclare(t, is_root_type) ==
    IF IsRec(t) THEN RecordDeclare(t.rec, is_root_type)
    ELSE ArrayDeclare(t.arr, is_root_type)

\* Port::has_reversed
PortHasReversed(p) == TypeHasReversed(p.typ)

\* Declare for Port
PortDeclare(p) ==
    [name |-> p.name, mode |-> p.mode, typ |-> TypeIdentifier(p.typ)]

\* the branch of Vec<Port>::declare for a port with reversed fields
DeclareSplitPort(s) ==
    IF s[1] = None \/ s[2] = None
    THEN Err("internal error: entered unreachable code")
    ELSE Ok(<<PortDeclare(s[1][1]), PortDeclare(s[2][1])>>)

RECURSIVE PortsDeclare(_)
\* Declare for Vec<Port>: a port with reversed fields is declared as its
\* two halves
PortsDeclare(ports) ==
    IF ports = <<>> THEN Ok(<<>>)
    ELSE LET first == IF PortHasReversed(ports[1])
                      THEN DeclareSplitPort(PortSplit(ports[1]))
                      ELSE Ok(<<PortDeclare(ports[1])>>)
             rest == PortsDeclare(Tail(ports))
         IN  Then(first, rest)

Component(id, ports) == [id |-> id, ports |-> ports]
Package(id, components) == [id |-> id, components |-> components]

\* the text of a component around the text of its ports
ComponentText(c, decls) ==
    IF decls.err # None THEN decls
    ELSE Ok(<<[component |-> c.id, ports |-> decls.text]>>)

\* Declare for Component
ComponentDeclare(c) == ComponentText(c, PortsDeclare(c.ports))

RECURSIVE TypeNestedTypes(_)
\* Analyze for Type: a record, union or array type followed by the types
\* nested in it
TypeNestedTypes(t) ==
    CASE IsRec(t) ->
            <<t>> \o Flatten([i \in 1..Len(t.rec.fields) |->
                                 TypeNestedTypes(t.rec.fields[i].typ)])
      [] t.kind = "Array" -> <<t>> \o TypeNestedTypes(t.arr.typ)
      [] OTHER -> <<>>

\* Analyze for Component: the types of the ports that are a record, a union
\* or an array, in port order
list_nested_types(c) ==
    LET IsComposite(p) == IsRec(p.typ) \/ p.typ.kind = "Array"
        composite == SelectSeq(c.ports, IsComposite)
    IN  [i \in 1..Len(composite) |-> composite[i].typ]

\* ------------------------------------- inputs of the physical stream machine

FieldNames == <<"a", "b", "c", "d">>

\* Fields of n entries with pairwise distinct path names and positive widths.
FieldsOfLen(n, widths) ==
    { [i \in 1..n |-> [name |-> FieldNames[i], bits |-> w[i]]] :
        w \in [1..n -> widths] }

FieldsUpTo(n, widths) == UNION { FieldsOfLen(k, widths) : k \in 0..n }

Complexities ==
    { <<c>> : c \in 0..MaxMajor }
        \cup { <<c, m>> : c \in 0..MaxMajor, m \in 0..MaxMinor }

PhysicalStream(e, n, d, c, u) ==
    [ element_fields |-> e, element_lanes |-> n, dimensionality |-> d,
      complexity |-> c, user |-> u ]

\* The streams of the module documentation of physical.rs.
DocStream(c) ==
    PhysicalStream(<<[name |-> "a", bits |-> 4], [name |-> "b", bits |-> 8]>>,
                   2, 0, <<c>>, <<>>)

Streams ==
    { PhysicalStream(e, n, d, c, u) :
        e \in FieldsUpTo(MaxFields, (1..MaxWidth) \cup {MaxWord}),
        n \in 1..MaxLanes,
        d \in 0..MaxDim,
        c \in Complexities,
        u \in FieldsUpTo(MaxUserFields, 1..MaxWidth) }
        \cup { DocStream(2), DocStream(8) }

\* ------------------------------------------- the physical stream machine

PhysIdle ==
    /\ ppc = "idle"
    /\ ps = PhysicalStream(<<>>, 1, 0, <<1>>, <<>>)
    /\ sl = None
    /\ sigs = <<>>
    /\ counts = None

PhysNew ==
    /\ ppc = "new"
    /\ ps \in Streams
    /\ sl = None
    /\ sigs = <<>>
    /\ counts = None

\* PhysicalStream::signal_list / SignalList::from
CallSignalList ==
    /\ ppc = "new"
    /\ ~(DataOverflows(ps) \/ UserOverflows(ps))
    /\ sl' = Some(signal_list(ps))
    /\ ppc' = "listed"
    /\ UNCHANGED <<ps, sigs, counts>>
    /\ UNCHANGED notPhys

\* the same call when a sum does not fit: a debug build panics, a release
\* build wraps around and returns
SignalListOverflow ==
    /\ ppc = "new"
    /\ DataOverflows(ps) \/ UserOverflows(ps)
    /\ \/ ppc' = "panicked" /\ sl' = sl
       \/ ppc' = "listed" /\ sl' = Some(signal_list(ps))
    /\ UNCHANGED <<ps, sigs, counts>>
    /\ UNCHANGED notPhys

\* PhysicalStream::bit_count
CallBitCount ==
    /\ ppc = "listed"
    /\ ~TotalOverflows(ps)
    /\ counts' = Some(bit_count(ps))
    /\ ppc' = "counted"
    /\ UNCHANGED <<ps, sl, sigs>>
    /\ UNCHANGED notPhys

BitCountOverflow ==
    /\ ppc = "listed"
    /\ TotalOverflows(ps)
    /\ \/ ppc' = "panicked" /\ counts' = counts
       \/ ppc' = "counted" /\ counts' = Some(bit_count(ps))
    /\ UNCHANGED <<ps, sl, sigs>>
    /\ UNCHANGED notPhys

\* (&signal_list).into_iter().collect()
Iterate ==
    /\ ppc = "counted"
    /\ sigs' = into_iter(sl[1])
    /\ ppc' = "iterated"
    /\ UNCHANGED <<ps, sl, counts>>
    /\ UNCHANGED notPhys

PhysNext ==
    \/ CallSignalList
    \/ SignalListOverflow
    \/ CallBitCount
    \/ BitCountOverflow
    \/ Iterate

\* ---------------------------------------------- inputs of the split machine

Docs == {None, Some(" doc")}

\* a field of a bit type, with or without documentation
LeafFields(n) == { Field(n, Bit, r, d) : r \in BOOLEAN, d \in Docs }

\* the records of up to n undocumented bit fields
LeafRecords(id, n) ==
    UNION { { Record(id, [i \in 1..k |-> Field(FieldNames[i], Bit, r[i], None)]) :
                r \in [1..k -> BOOLEAN] } : k \in 0..n }

\* the fields a root record can hold under the name n: a bit, a nested
\* record, or an array of one-field records
RootFields(id, n) ==
    LeafFields(n)
        \cup { Field(n, TRecord(rec), r, None) :
                  rec \in LeafRecords(cat(id, n), MaxNestedFields), r \in BOOLEAN }
        \cup { Field(n, TArray(Array(cat(cat(id, n), "array"), TRecord(rec), 2)),
                     r, None) :
                  rec \in LeafRecords(cat(id, n), 1) \ {Record(cat(id, n), <<>>)},
                  r \in BOOLEAN }

\* a chain of three nested one-field records
Chain(r1, r2, r3) ==
    TRecord(Record("r", <<Field("a",
        TRecord(Record("r_a", <<Field("a",
            TRecord(Record("r_a_a", <<Field("a", Bit, r3, None)>>)),
            r2, None)>>)),
        r1, None)>>))

\* the record of test split_nested_rec, for each direction of its two fields
NestedRec(ra, rb) ==
    TRecord(Record("test", <<
        Field("fa", TRecord(Record("ra", <<Field("fc", Bit, FALSE, None),
                                           Field("fd", Bit, TRUE, None)>>)),
              ra, None),
        Field("fb", TRecord(Record("rb", <<Field("fe", Bit, FALSE, None),
                                           Field("ff", Bit, TRUE, None)>>)),
              rb, None)>>))

\* the types the split machine starts from: a record and a union still
\* without fields, arrays of records, the nested records of the test,
\* three-level chains and the bit types
SplitStart ==
    { TRecord(Record("r", <<>>)), TUnion(Record("r", <<>>)) }
        \cup { NestedRec(ra, rb) : ra, rb \in BOOLEAN }
        \cup { TArray(Array("r_array", TRecord(rec), 2)) :
                  rec \in LeafRecords("r", MaxNestedFields) }
        \cup { Chain(r1, r2, r3) : r1, r2, r3 \in BOOLEAN }
        \cup { Bit, BitVec(MaxWidth) }

\* --------------------------------------------------- the split machine

SplitIdle ==
    /\ spc = "idle"
    /\ st = Bit
    /\ sp = None
    /\ sres = <<None, None>>

SplitNew ==
    /\ spc = "new"
    /\ st \in SplitStart
    /\ sp = None
    /\ sres = <<None, None>>

\* Record::insert: one more field, under the next name, on the record or
\* union that is going to be split
InsertField ==
    /\ spc = "new"
    /\ IsRec(st)
    /\ Len(st.rec.fields) < MaxRootFields
    /\ \E f \in RootFields(st.rec.id, FieldNames[Len(st.rec.fields) + 1]) :
          st' = [st EXCEPT !.rec.fields = Append(@, f)]
    /\ UNCHANGED <<spc, sp, sres>>
    /\ UNCHANGED notSplit

\* Type::split
CallTypeSplit ==
    /\ spc = "new"
    /\ sres' = TypeSplit(st)
    /\ spc' = "type"
    /\ UNCHANGED <<st, sp>>
    /\ UNCHANGED notSplit

\* Array::split
CallArraySplit ==
    /\ spc = "new"
    /\ st.kind = "Array"
    /\ sres' = ArraySplit(st.arr)
    /\ spc' = "array"
    /\ UNCHANGED <<st, sp>>
    /\ UNCHANGED notSplit

\* Port::split of a port of this type
CallPortSplit ==
    /\ spc = "new"
    /\ \E m \in {"In", "Out"} :
          /\ sp' = Some(Port("p", m, st))
          /\ sres' = PortSplit(Port("p", m, st))
    /\ spc' = "port"
    /\ UNCHANGED st
    /\ UNCHANGED notSplit

SplitNext ==
    \/ InsertField
    \/ CallTypeSplit
    \/ CallArraySplit
    \/ CallPortSplit

vars == <<physVars, splitVars, genVars, portVars, cmpVars, nameVars, libVars, useVars, sliceVars, tryVars, laneVars, stageVars, mapVars, suffixVars, fieldsVars, canonVars>>

\* -------------------------------------------- inputs of the generate machine

PortNames == <<"p1", "p2", "p3", "p4">>
ComponentNames == <<"c1", "c2", "c3", "c4">>

\* a record named id with the single field f of type t
Holder(id, t) == TRecord(Record(id, <<Field("f", t, FALSE, None)>>))

\* two records named n that differ
NestedOne == TRecord(Record("n", <<Field("x", Bit, FALSE, None)>>))
NestedTwo ==
    TRecord(Record("n", <<Field("x", Bit, FALSE, None),
                          Field("y", Bit, FALSE, None)>>))

\* the record of test_comp: a forward and a reversed field
Reversing(id) ==
    TRecord(Record(id, <<Field("c", BitVec(MaxWidth), FALSE, None),
                         Field("d", BitVec(MaxWidth), TRUE, None)>>))

\* a record with a reversed bit and an array of records of both directions
ArrayHolder ==
    TRecord(Record("h", <<Field("a", Bit, TRUE, None),
                          Field("b", TArray(Array("h_b_array", Reversing("h_b"), 2)),
                                FALSE, None)>>))

\* the types of the ports
PortTypes ==
    { Holder(id, t) : id \in {"a", "b"}, t \in {NestedOne, NestedTwo} }
        \cup { Reversing("a"), Bit }

\* the package whose n ports have the types ts and whose components end
\* after the ports in cut and after the last port
PackageOf(n, ts, cut) ==
    LET CompOf(i) == 1 + Cardinality({ c \in cut : c < i })
        First(k) == CHOOSE i \in 1..n :
                        CompOf(i) = k /\ \A j \in 1..(i - 1) : CompOf(j) < k
        Size(k) == Cardinality({ i \in 1..n : CompOf(i) = k })
    IN  Package("pkg",
            [k \in 1..(IF n = 0 THEN 0 ELSE CompOf(n)) |->
                Component(ComponentNames[k],
                    [j \in 1..Size(k) |->
                        Port(PortNames[First(k) + j - 1], "In",
                             ts[First(k) + j - 1])])])

Packages(max) ==
    UNION { { PackageOf(n, ts, cut) :
                ts \in [1..n -> PortTypes], cut \in SUBSET (1..(n - 1)) } :
            n \in 0..max }

\* packages of one component whose two ports have nested types of both
\* directions and array types
RichTypes ==
    { NestedRec(FALSE, TRUE), ArrayHolder, Reversing("a"),
      TArray(Array("v", NestedOne, 2)) }
RichPackages ==
    { Package("pkg", <<Component(ComponentNames[1],
                                 <<Port(PortNames[1], "In", t1),
                                   Port(PortNames[2], "Out", t2)>>)>>) :
        t1 \in RichTypes, t2 \in RichTypes }

\* the text of a package file left by an earlier run
OldText == <<[package |-> "old"]>>

\* ------------------------------------------------- the generate machine

GenIdle ==
    /\ gpc = "idle"
    /\ pkg = Package("pkg", <<>>)
    /\ pfile0 = None
    /\ pfile = None
    /\ type_ids = <<>>
    /\ dresult = <<>>
    /\ dci = 1
    /\ dti = 1
    /\ gret = None

GenNew ==
    /\ gpc = "new"
    /\ pkg = Package("pkg", <<>>)
    /\ pfile0 = None
    /\ pfile = None
    /\ type_ids = <<>>
    /\ dresult = <<>>
    /\ dci = 1
    /\ dti = 1
    /\ gret = None

IoError == Err("io error")

\* generate: create_dir_all of the project directory
CreateDir ==
    /\ gpc = "new"
    /\ \/ gpc' = "lib" /\ gret' = gret
       \/ gpc' = "returned" /\ gret' = Some(IoError)
    /\ UNCHANGED <<pkg, pfile0, pfile, type_ids, dresult, dci, dti>>
    /\ UNCHANGED notGen

\* the turn of a library whose package file comes first
BeginLibrary_create_file_first ==
    /\ gpc = "lib"
    /\ pkg' \in Packages(MaxPorts) \cup RichPackages
    /\ pfile0' \in {None, Some(OldText)}
    /\ pfile' = Some(<<>>)
    /\ type_ids' = <<>>
    /\ dresult' = <<[package |-> pkg'.id]>>
    /\ dci' = 1
    /\ dti' = 1
    /\ gpc' = "declare"
    /\ UNCHANGED gret
    /\ UNCHANGED notGen

\* generate: the next library of the project; its package is pak, its
\* package file may be there from an earlier run; Package::declare begins
\* with the usings and the package header
BeginLibrary ==
    /\ gpc = "lib"
    /\ pkg' \in Packages(MaxPorts) \cup RichPackages
    /\ pfile0' \in {None, Some(OldText)}
    /\ pfile' = pfile0'
    /\ type_ids' = <<>>
    /\ dresult' = <<[package |-> pkg'.id]>>
    /\ dci' = 1
    /\ dti' = 1
    /\ gpc' = "declare"
    /\ UNCHANGED gret
    /\ UNCHANGED notGen

\* generate: no library is left
Finish ==
    /\ gpc = "lib"
    /\ gpc' = "returned"
    /\ gret' = Some(Ok(<<>>))
    /\ UNCHANGED <<pkg, pfile0, pfile, type_ids, dresult, dci, dti>>
    /\ UNCHANGED notGen

\* the type Package::declare is at
comp_nested == list_nested_types(pkg.components[dci])
AtType ==
    /\ gpc = "declare"
    /\ dci <= Len(pkg.components)
    /\ dti <= Len(comp_nested)

\* Package::declare: the identifier is new; remember and declare the type
DeclareNewType ==
    /\ AtType
    /\ \E t \in {comp_nested[dti]} : \E d \in {TypeDeclare(t, TRUE)} :
           /\ TypeIdentifier(t) \notin DOMAIN type_ids
           /\ type_ids' = (TypeIdentifier(t) :> t) @@ type_ids
           /\ IF d.err = None
              THEN /\ dresult' = dresult \o d.text
                   /\ dti' = dti + 1
                   /\ UNCHANGED <<gpc, gret>>
              ELSE /\ gpc' = "returned"
                   /\ gret' = Some(d)
                   /\ UNCHANGED <<dresult, dti>>
    /\ UNCHANGED <<pkg, pfile0, pfile, dci>>
    /\ UNCHANGED notGen

\* Package::declare: the identifier is known for an equal type
SkipKnownType ==
    /\ AtType
    /\ LET t == comp_nested[dti]
       IN  /\ TypeIdentifier(t) \in DOMAIN type_ids
           /\ t = type_ids[TypeIdentifier(t)]
    /\ dti' = dti + 1
    /\ UNCHANGED <<gpc, pkg, pfile0, pfile, type_ids, dresult, dci, gret>>
    /\ UNCHANGED notGen

ConflictError(id) == Err("Type name conflict: " \o id)

\* Package::declare: the identifier is known for another type; generate
\* returns the error
TypeConflict ==
    /\ AtType
    /\ LET t == comp_nested[dti]
       IN  /\ TypeIdentifier(t) \in DOMAIN type_ids
           /\ t # type_ids[TypeIdentifier(t)]
           /\ gret' = Some(ConflictError(TypeIdentifier(type_ids[TypeIdentifier(t)])))
    /\ gpc' = "returned"
    /\ UNCHANGED <<pkg, pfile0, pfile, type_ids, dresult, dci, dti>>
    /\ UNCHANGED notGen

\* Package::declare: the types of the component are done, declare it
DeclareComponent ==
    /\ gpc = "declare"
    /\ dci <= Len(pkg.components)
    /\ dti > Len(comp_nested)
    /\ \E d \in {ComponentDeclare(pkg.components[dci])} :
           IF d.err = None
           THEN /\ dresult' = dresult \o d.text
                /\ dci' = dci + 1
                /\ dti' = 1
                /\ UNCHANGED <<gpc, gret>>
           ELSE /\ gpc' = "returned"
                /\ gret' = Some(d)
                /\ UNCHANGED <<dresult, dci, dti>>
    /\ UNCHANGED <<pkg, pfile0, pfile, type_ids>>
    /\ UNCHANGED notGen

\* Package::declare returns Ok(result)
DeclareEnd ==
    /\ gpc = "declare"
    /\ dci > Len(pkg.components)
    /\ dresult' = Append(dresult, [end |-> pkg.id])
    /\ gpc' = "write"
    /\ UNCHANGED <<pkg, pfile0, pfile, type_ids, dci, dti, gret>>
    /\ UNCHANGED notGen

\* std::fs::write: the file is created or truncated, or cannot be
OpenPackageFile ==
    /\ gpc = "write"
    /\ \/ gpc' = "opened" /\ pfile' = Some(<<>>) /\ gret' = gret
       \/ gpc' = "returned" /\ pfile' = pfile /\ gret' = Some(IoError)
    /\ UNCHANGED <<pkg, pfile0, type_ids, dresult, dci, dti>>
    /\ UNCHANGED notGen

\* std::fs::write: the text is written
WritePackageText ==
    /\ gpc = "opened"
    /\ pfile' = Some(dresult)
    /\ gpc' = "wrappers"
    /\ UNCHANGED <<pkg, pfile0, type_ids, dresult, dci, dti, gret>>
    /\ UNCHANGED notGen

\* generate: the wrappers of the streamlets (fancy only) are written and the
\* loop goes on to the next library, or one of them fails
WriteWrappers ==
    /\ gpc = "wrappers"
    /\ \/ /\ gpc' = "lib"
          /\ pkg' = Package("pkg", <<>>)
          /\ pfile0' = None /\ pfile' = None
          /\ type_ids' = <<>> /\ dresult' = <<>>
          /\ dci' = 1 /\ dti' = 1
          /\ gret' = gret
       \/ /\ gpc' = "returned"
          /\ gret' = Some(Err("wrapper error"))
          /\ UNCHANGED <<pkg, pfile0, pfile, type_ids, dresult, dci, dti>>
    /\ UNCHANGED notGen

GenNext ==
    \/ CreateDir
    \/ BeginLibrary
    \/ Finish
    \/ DeclareNewType
    \/ SkipKnownType
    \/ TypeConflict
    \/ DeclareComponent
    \/ DeclareEnd
    \/ OpenPackageFile
    \/ WritePackageText
    \/ WriteWrappers

\* -------------------------------------------- generator/common: conversion

\* impl From<Width> for Type
WidthType(w) == IF w.kind = "Scalar" THEN Bit ELSE BitVec(w.w)

\* impl ModeFor for Origin, with Sink read as Source
mode_for_sink_as_source(origin, streamlet_mode) == streamlet_mode

\* impl ModeFor for Origin
mode_for(origin, streamlet_mode) ==
    IF origin = "Sink"
    THEN (IF streamlet_mode = "In" THEN "Out" ELSE "In")
    ELSE (IF streamlet_mode = "In" THEN "In" ELSE "Out")

\* A Stream is given by what synthesis makes of it: the data of the stream is
\* a Group of Bits fields, its element fields; the throughput is the lane
\* count.  The stream is null when it has neither data nor user fields.
StreamIsNull(phys) == phys.element_fields = <<>> /\ phys.user = <<>>

\* Record::new_empty_stream: a valid and a reversed ready bit
new_empty_stream(id) ==
    Record(id, <<Field("valid", Bit, FALSE, None),
                 Field("ready", Bit, TRUE, None)>>)

\* Typify for Group :: fancy, every field being Bits
GroupFancy(fields, prefix) ==
    TRecord(Record(prefix,
        [i \in 1..Len(fields) |->
            Field(fields[i].name, BitVec(fields[i].bits), FALSE, None)]))

\* Multilane for Type :: with_throughput, the lane count fitting 32 bits
with_throughput(t, identity, element_lanes) ==
    IF element_lanes > 1
    THEN (IF t.kind = "Bit" THEN BitVec(element_lanes)
          ELSE TArray(Array(identity \o "_array", t, element_lanes)))
    ELSE t

\* rec.insert_new_field for an optional signal of the list
SignalField(sig) ==
    [i \in 1..Len(sig) |->
        Field(sig[i].name, WidthType(sig[i].width), sig[i].origin = "Sink", None)]

\* Typify for Stream :: fancy, the path of the stream being empty
StreamFancy(phys, pre) ==
    IF StreamIsNull(phys) THEN None
    ELSE Some(TRecord(Record(pre,
            new_empty_stream(pre).fields
                \o <<Field("data",
                            with_throughput(
                                GroupFancy(phys.element_fields, cat(pre, "data")),
                                cat(pre, "data"), phys.element_lanes),
                            FALSE, None)>>
                \o SignalField(SignalList_last(signal_list(phys)))
                \o SignalField(SignalList_stai(signal_list(phys)))
                \o SignalField(SignalList_endi(signal_list(phys)))
                \o SignalField(SignalList_strb(signal_list(phys))))))

\* the signals Interface::canonical goes through: those of the one physical
\* stream, none for a null stream
StreamSignals(phys) ==
    IF StreamIsNull(phys) THEN <<>> ELSE into_iter(signal_list(phys))

\* Portify for Interface :: canonical
InterfaceCanonical(i) ==
    [k \in 1..Len(StreamSignals(i.phys)) |->
        Port(cat(i.name, StreamSignals(i.phys)[k].name),
             mode_for(StreamSignals(i.phys)[k].origin, i.mode),
             WidthType(StreamSignals(i.phys)[k].width))]

\* Portify for Interface :: fancy, the path of the stream being empty
interface_fancy(i, name, type_name) ==
    [k \in 1..Len(StreamFancy(i.phys, type_name)) |->
        Port(name, i.mode, StreamFancy(i.phys, type_name)[k])]

\* Portify for Interface :: fancy, with the name of the interface as type name
InterfaceFancy(i) == interface_fancy(i, i.name, i.name)

\* ------------------------------------------------- the interface machine

Interface(name, mode, phys) == [name |-> name, mode |-> mode, phys |-> phys]

PortIdle ==
    /\ ipc = "idle"
    /\ iface = Interface("a", "In", PhysicalStream(<<>>, 1, 0, <<1>>, <<>>))
    /\ cports = <<>>
    /\ fports = <<>>
    /\ halves = <<>>

\* the complexities of the interfaces: every major number, alone and with a
\* minor one
PortComplexities ==
    { <<c>> : c \in 0..MaxMajor } \cup { <<c, 1>> : c \in 0..MaxMajor }

PortNew ==
    /\ ipc = "new"
    /\ \E m \in {"In", "Out"}, n \in 1..MaxLanes, d \in 0..MaxDim,
          c \in PortComplexities :
       \E e \in FieldsUpTo(MaxFields, 1..MaxWidth),
          u \in FieldsUpTo(MaxUserFields, 1..MaxWidth) :
            iface = Interface("a", m, PhysicalStream(e, n, d, c, u))
    /\ cports = <<>>
    /\ fports = <<>>
    /\ halves = <<>>

CallCanonical ==
    /\ ipc = "new"
    /\ cports' = InterfaceCanonical(iface)
    /\ ipc' = "canonical"
    /\ UNCHANGED <<iface, fports, halves>>
    /\ UNCHANGED notPort

CallFancy ==
    /\ ipc = "canonical"
    /\ fports' = InterfaceFancy(iface)
    /\ ipc' = "fancy"
    /\ UNCHANGED <<iface, cports, halves>>
    /\ UNCHANGED notPort

\* Vec<Port>::declare: every port that has a reversed field is split
SplitFancyPorts ==
    /\ ipc = "fancy"
    /\ halves' = [k \in 1..Len(fports) |->
                    IF PortHasReversed(fports[k]) THEN PortSplit(fports[k])
                    ELSE <<Some(fports[k]), None>>]
    /\ ipc' = "split"
    /\ UNCHANGED <<iface, cports, fports>>
    /\ UNCHANGED notPort

PortNext ==
    \/ CallCanonical
    \/ CallFancy
    \/ SplitFancyPorts

\* ------------------------------------------------ physical.rs: Complexity

\* self.level.get(idx).unwrap_or(&0), idx counted from 1
level_get_or_zero(level, idx) == IF idx <= Len(level) THEN level[idx] ELSE 0

\* self.level.len().max(other.level.len())
max_len(a, b) == IF Len(a) >= Len(b) THEN Len(a) ELSE Len(b)

\* PartialEq for Complexity, comparing the vectors as they are
Complexity_eq_unpadded(a, b) == a = b

\* impl PartialEq for Complexity
Complexity_eq(a, b) ==
    \A idx \in 1..max_len(a, b) :
        level_get_or_zero(a, idx) = level_get_or_zero(b, idx)

\* i.cmp(j) on NonNegative
cmp_nonneg(i, j) == IF i < j THEN "Less" ELSE IF i > j THEN "Greater" ELSE "Equal"

\* the fold of Ord::cmp from index idx on, ord being the accumulator
RECURSIVE cmp_fold(_, _, _, _)
cmp_fold(a, b, idx, ord) ==
    IF idx > max_len(a, b) THEN ord
    ELSE cmp_fold(a, b, idx + 1,
            IF ord # None THEN ord
            ELSE IF level_get_or_zero(a, idx) = level_get_or_zero(b, idx) THEN None
            ELSE Some(cmp_nonneg(level_get_or_zero(a, idx),
                                 level_get_or_zero(b, idx))))

\* impl Ord for Complexity
Complexity_cmp(a, b) == unwrap_or(cmp_fold(a, b, 1, None), "Equal")

\* --------------------------------------------- the complexity machine

\* the levels Complexity::new accepts: not empty
LevelsOfLen(n) == [1..n -> 0..MaxLevel]

\* the longer levels of the documentation and tests
DocLevels == { <<3, 1, 1>>, <<4>>, <<4, 0, 0>> }

Levels == UNION { LevelsOfLen(n) : n \in 1..MaxLevelLen } \cup DocLevels

CmpIdle ==
    /\ cpc = "idle"
    /\ ca = <<4>>
    /\ cb = <<4>>
    /\ ceq = None
    /\ ccmp = None

CmpNew ==
    /\ cpc = "new"
    /\ ca \in Levels
    /\ cb \in Levels
    /\ ceq = None
    /\ ccmp = None

CallEq ==
    /\ cpc = "new"
    /\ ceq' = Some(Complexity_eq(ca, cb))
    /\ cpc' = "eq"
    /\ UNCHANGED <<ca, cb, ccmp>>
    /\ UNCHANGED notCmp

CallCmp ==
    /\ cpc = "eq"
    /\ ccmp' = Some(Complexity_cmp(ca, cb))
    /\ cpc' = "cmp"
    /\ UNCHANGED <<ca, cb, ceq>>
    /\ UNCHANGED notCmp

CmpNext ==
    \/ CallEq
    \/ CallCmp

\* ------------------------------------------------------- lib.rs: Name

\* A name is the sequence of its characters.
Digits == {"0", "1"}
Letters == {"a", "c", "k", "l"}

starts_with(name, c) == name # <<>> /\ name[1] = c
ends_with(name, c) == name # <<>> /\ name[Len(name)] = c
contains_double_underscore(name) ==
    \E i \in 1..(Len(name) - 1) : name[i] = "_" /\ name[i + 1] = "_"

\* Name::try_new: TRUE when it returns Ok
try_new(name) ==
    IF name = <<>> THEN FALSE
    ELSE IF name[1] \in Digits THEN FALSE
    ELSE IF starts_with(name, "_") \/ ends_with(name, "_") THEN FALSE
    ELSE IF contains_double_underscore(name) THEN FALSE
    ELSE IF ~(\A i \in 1..Len(name) : name[i] \in Letters \cup Digits \cup {"_"})
         THEN FALSE
    ELSE TRUE

\* cat! on two names
cat_names(a, b) ==
    IF a = <<>> THEN b ELSE IF b = <<>> THEN a ELSE a \o <<"_">> \o b

\* Componentify for Streamlet :: fancy: the type name handed to
\* Interface::fancy, which Stream::fancy gives to the record of the stream
\* (the path of the stream being empty)
fancy_type_prefix(streamlet, interface) == cat_names(streamlet, interface)

\* VHDLIdentifier for Record, on names
vhdl_identifier_of_name(id) == cat_names(id, <<"t", "y", "p", "e">>)

\* ------------------------------------------------------ the naming machine

\* strings of a and _, and three strings try_new rejects for other reasons
RawOfLen(n) == [1..n -> {"a", "_"}]
RawNames ==
    UNION { RawOfLen(n) : n \in 1..MaxNameLen }
        \cup { <<>>, <<"1", "a">>, <<"a", "-">> }

NameIdle ==
    /\ npc = "idle"
    /\ nraw = <<<<>>, <<>>>>
    /\ npairs = <<>>
    /\ nids = <<>>

NameNew ==
    /\ npc = "new"
    /\ nraw \in RawNames \X RawNames
    /\ npairs = <<>>
    /\ nids = <<>>

\* Name::try_new on the name of a streamlet and of one of its interfaces
TryNewNames ==
    /\ npc = "new"
    /\ IF try_new(nraw[1]) /\ try_new(nraw[2])
       THEN /\ npairs' = Append(npairs, nraw)
            /\ npc' = IF Len(npairs) = 1 THEN "named" ELSE "more"
       ELSE npc' = "rejected" /\ npairs' = npairs
    /\ UNCHANGED <<nraw, nids>>
    /\ UNCHANGED notName

\* a second interface, of the same or of another streamlet of the library
AnotherInterface ==
    /\ npc = "more"
    /\ nraw' \in (RawNames \X RawNames) \ {npairs[1]}
    /\ npc' = "new"
    /\ UNCHANGED <<npairs, nids>>
    /\ UNCHANGED notName

\* Library::fancy: the identifier of the record type of each interface
FancyTypeNames ==
    /\ npc = "named"
    /\ nids' = [k \in 1..Len(npairs) |->
                  vhdl_identifier_of_name(
                      fancy_type_prefix(npairs[k][1], npairs[k][2]))]
    /\ npc' = "typed"
    /\ UNCHANGED <<nraw, npairs>>
    /\ UNCHANGED notName

NameNext ==
    \/ TryNewNames
    \/ AnotherInterface
    \/ FancyTypeNames

\* ------------------------------- generator/common: components and packages

\* CANON_SUFFIX
CANON_SUFFIX == Some("com")

\* Streamlet::inputs and Streamlet::outputs: the interfaces of that mode, in
\* the order of declaration
IsInput(i) == i.mode = "In"
IsOutput(i) == i.mode = "Out"
inputs(s) == SelectSeq(s.interfaces, IsInput)
outputs(s) == SelectSeq(s.interfaces, IsOutput)

\* the ports every component starts with
ClkRst == <<Port("clk", "In", Bit), Port("rst", "In", Bit)>>

\* all_ports.extend(interface.canonical(interface.identifier())), for each
CanonicalPorts(interfaces) ==
    Flatten([k \in 1..Len(interfaces) |-> InterfaceCanonical(interfaces[k])])

\* collect_ports of Streamlet::fancy
collect_ports(s, interfaces) ==
    Flatten([k \in 1..Len(interfaces) |->
        interface_fancy(interfaces[k], interfaces[k].name,
                        cat(s.name, interfaces[k].name))])

\* Componentify for Streamlet :: canonical, with the outputs first
StreamletCanonical_outputs_first(s, suffix) ==
    Component(cat(s.name, unwrap_or(suffix, "")),
              ClkRst \o CanonicalPorts(outputs(s)) \o CanonicalPorts(inputs(s)))

\* Componentify for Streamlet :: canonical
StreamletCanonical(s, suffix) ==
    Component(cat(s.name, unwrap_or(suffix, "")),
              ClkRst \o CanonicalPorts(inputs(s)) \o CanonicalPorts(outputs(s)))

\* Componentify for Streamlet :: fancy
StreamletFancy(s, suffix) ==
    Some(Component(cat(s.name, unwrap_or(suffix, "")),
                   ClkRst \o collect_ports(s, inputs(s))
                          \o collect_ports(s, outputs(s))))

\* Packify for Library :: canonical
LibraryCanonical(l) ==
    Package(l.id,
        [k \in 1..Len(l.streamlets) |->
            StreamletCanonical(l.streamlets[k], CANON_SUFFIX)])

\* Packify for Library :: fancy, with the canonical components left out
LibraryFancy_fancy_only(l) ==
    Package(l.id,
        Flatten([k \in 1..Len(l.streamlets) |->
            StreamletFancy(l.streamlets[k], None)]))

\* Packify for Library :: fancy
LibraryFancy(l) ==
    Package(l.id,
        Flatten([k \in 1..Len(l.streamlets) |->
            <<StreamletCanonical(l.streamlets[k], CANON_SUFFIX)>>
                \o StreamletFancy(l.streamlets[k], None)]))

\* ------------------------------------------------------ the library machine

StreamletNames == <<"x", "x_com", "y", "z">>
InterfaceNames == <<"a", "b", "c", "d">>

\* the stream of the k-th interface: one with data only, one with all eight
\* signals, a null stream
StreamAt(k) ==
    CASE k % 3 = 1 ->
            PhysicalStream(<<[name |-> "a", bits |-> 1]>>, 1, 0, <<1>>, <<>>)
      [] k % 3 = 2 ->
            PhysicalStream(<<[name |-> "a", bits |-> 1]>>, 2, 1, <<7>>,
                           <<[name |-> "u", bits |-> 1]>>)
      [] OTHER -> PhysicalStream(<<>>, 1, 0, <<1>>, <<>>)

\* the modes of the interfaces of a streamlet, in the order of declaration
ModeLists == UNION { [1..n -> {"In", "Out"}] : n \in 0..MaxInterfaces }

Streamlet(name, modes) ==
    [name |-> name,
     interfaces |-> [k \in 1..Len(modes) |->
                        Interface(InterfaceNames[k], modes[k], StreamAt(k))]]

Library(id, modes) ==
    [id |-> id,
     streamlets |-> [k \in 1..Len(modes) |-> Streamlet(StreamletNames[k], modes[k])]]

LibIdle ==
    /\ lpc = "idle"
    /\ lib = Library("lib", <<>>)
    /\ cpkg = None
    /\ fpkg = None

LibNew ==
    /\ lpc = "new"
    /\ \E n \in 0..MaxStreamlets : \E modes \in [1..n -> ModeLists] :
          lib = Library("lib", modes)
    /\ cpkg = None
    /\ fpkg = None

CallLibraryCanonical ==
    /\ lpc = "new"
    /\ cpkg' = Some(LibraryCanonical(lib))
    /\ lpc' = "canonical"
    /\ UNCHANGED <<lib, fpkg>>
    /\ UNCHANGED notLib

CallLibraryFancy ==
    /\ lpc = "canonical"
    /\ fpkg' = Some(LibraryFancy(lib))
    /\ lpc' = "fancy"
    /\ UNCHANGED <<lib, cpkg>>
    /\ UNCHANGED notLib

LibNext ==
    \/ CallLibraryCanonical
    \/ CallLibraryFancy

\* ------------------------------------------------ generator/vhdl: Usings

\* Usings is the sequence of the entries of the IndexMap, in insertion order.
new_empty == <<>>

HasLibrary(u, library) == \E k \in 1..Len(u) : u[k].library = library

\* IndexMap::insert: the value of an existing key is replaced in place, a new
\* key is appended
index_insert(u, library, set) ==
    IF HasLibrary(u, library)
    THEN [k \in 1..Len(u) |->
            IF u[k].library = library THEN [u[k] EXCEPT !.usings = set] ELSE u[k]]
    ELSE Append(u, [library |-> library, usings |-> set])

\* Usings::add_using: entry(library).or_insert(HashSet::new()).insert(using)
add_using(u, library, using) ==
    IF HasLibrary(u, library)
    THEN [k \in 1..Len(u) |->
            IF u[k].library = library
            THEN [u[k] EXCEPT !.usings = @ \cup {using}] ELSE u[k]]
    ELSE Append(u, [library |-> library, usings |-> {using}])

\* Usings::combine
RECURSIVE combine(_, _)
combine(u, other) ==
    IF other = <<>> THEN u
    ELSE combine(index_insert(u, other[1].library, other[1].usings), Tail(other))

\* ListUsings for Package: ieee.std_logic_1164 when a port type uses std_logic
PackageUsings(uses_std_logic) ==
    IF uses_std_logic THEN add_using(new_empty, "ieee", "std_logic_1164.all")
    ELSE new_empty

\* Architecture::new: the usings of the package and the package itself
ArchitectureUsings(uses_std_logic, library_id, package_id) ==
    add_using(PackageUsings(uses_std_logic), library_id, package_id \o ".all")

\* The orders in which a HashSet can be iterated: a HashSet iterates in the
\* order of the hashes of its RandomState, which every HashSet::new() seeds
\* anew; any order of the elements can come out.
IterationOrders(set) ==
    { f \in [1..Cardinality(set) -> set] :
        \A i, j \in 1..Cardinality(set) : i # j => f[i] # f[j] }

\* DeclareUsings: the texts declare_usings can return, each a sequence of
\* lines: library lib; followed by use lib.using; for each using of the set
RECURSIVE declare_usings(_)
declare_usings(u) ==
    IF u = <<>> THEN {<<>>}
    ELSE { <<[library |-> u[1].library]>>
              \o [k \in 1..Len(order) |-> [use |-> <<u[1].library, order[k]>>]]
              \o rest :
            order \in IterationOrders(u[1].usings),
            rest \in declare_usings(Tail(u)) }

\* ------------------------------------------------------- the usings machine

UsingLibraries == {"ieee", "work"}
UsingNames == {"std_logic_1164.all", "numeric_std.all", "Stream_pkg.all"}

\* what the objects of a declaration or statement list as their usings
ObjectUsings ==
    { new_empty, add_using(new_empty, "ieee", "std_logic_1164.all") }

UseIdle ==
    /\ upc = "idle"
    /\ ukind = "package"
    /\ usings = new_empty
    /\ ucalls = 0
    /\ utext1 = None
    /\ utext2 = None

UseNew ==
    /\ upc = "new"
    /\ ukind \in {"package", "architecture"}
    /\ \E uses_std_logic \in BOOLEAN :
          usings = IF ukind = "package" THEN PackageUsings(uses_std_logic)
                   ELSE ArchitectureUsings(uses_std_logic, "work", "test")
    /\ ucalls = 0
    /\ utext1 = None
    /\ utext2 = None

\* Architecture::add_using
AddUsing ==
    /\ upc = "new"
    /\ ukind = "architecture"
    /\ ucalls < MaxUsingCalls
    /\ \E library \in UsingLibraries, using \in UsingNames :
          usings' = add_using(usings, library, using)
    /\ ucalls' = ucalls + 1
    /\ UNCHANGED <<upc, ukind, utext1, utext2>>
    /\ UNCHANGED notUse

\* Architecture::add_declaration and add_statement: the usings of the objects
\* are combined into those of the architecture
AddDeclarationOrStatement ==
    /\ upc = "new"
    /\ ukind = "architecture"
    /\ ucalls < MaxUsingCalls
    /\ \E other \in ObjectUsings : usings' = combine(usings, other)
    /\ ucalls' = ucalls + 1
    /\ UNCHANGED <<upc, ukind, utext1, utext2>>
    /\ UNCHANGED notUse

\* declare_usings of the value
DeclareFirst ==
    /\ upc = "new"
    /\ utext1' \in { Some(t) : t \in declare_usings(usings) }
    /\ upc' = "first"
    /\ UNCHANGED <<ukind, usings, ucalls, utext2>>
    /\ UNCHANGED notUse

\* declare_usings of the value built again by the same calls
DeclareSecond ==
    /\ upc = "first"
    /\ utext2' \in { Some(t) : t \in declare_usings(usings) }
    /\ upc' = "second"
    /\ UNCHANGED <<ukind, usings, ucalls, utext1>>
    /\ UNCHANGED notUse

UseNext ==
    \/ AddUsing
    \/ AddDeclarationOrStatement
    \/ DeclareFirst
    \/ DeclareSecond

\* ------------------------------------------- generator/components: slices

Alphabet ==
    <<"a", "b", "c", "d", "e", "f", "g", "h", "i", "j", "k", "l", "m",
      "n", "o", "p", "q", "r", "s", "t", "u", "v", "w", "x", "y", "z">>

\* components::alphabet_sequence
RECURSIVE alphabet_sequence(_)
alphabet_sequence(num) ==
    IF num \div 26 > 0
    THEN alphabet_sequence((num \div 26) - 1) \o alphabet_sequence(num % 26)
    ELSE Alphabet[(num % 26) + 1]

\* cat!["slice", alphabet_sequence(slice_count)]
entity_name(count) == cat("slice", alphabet_sequence(count))

\* ------------------------------------------------------- the slice machine

Threads == 1..MaxThreads

SliceIdle ==
    /\ SLICE_COUNTER = 0
    /\ tpc = [t \in Threads |-> "idle"]
    /\ slice_count = [t \in Threads |-> 0]
    /\ package_components = [t \in Threads |-> <<>>]

SliceNew ==
    /\ SLICE_COUNTER = 0
    /\ tpc = [t \in Threads |-> "ready"]
    /\ slice_count = [t \in Threads |-> 0]
    /\ package_components = [t \in Threads |-> <<>>]

\* logical_slice, up to SLICE_COUNTER.fetch_add(1, Ordering::Relaxed)
FetchAdd(t) ==
    /\ tpc[t] = "ready"
    /\ Len(package_components[t]) < MaxSlices
    /\ slice_count' = [slice_count EXCEPT ![t] = SLICE_COUNTER]
    /\ SLICE_COUNTER' = (SLICE_COUNTER + 1) % Pow2(WordBits)
    /\ tpc' = [tpc EXCEPT ![t] = "counted"]
    /\ UNCHANGED package_components
    /\ UNCHANGED notSlice

\* logical_slice, from there on: package.components.push(slice_entity)
PushSliceEntity(t) ==
    /\ tpc[t] = "counted"
    /\ package_components' =
          [package_components EXCEPT
              ![t] = Append(@, entity_name(slice_count[t]))]
    /\ tpc' = [tpc EXCEPT ![t] = "ready"]
    /\ UNCHANGED <<SLICE_COUNTER, slice_count>>
    /\ UNCHANGED notSlice

SliceNext ==
    \/ \E t \in Threads : FetchAdd(t)
    \/ \E t \in Threads : PushSliceEntity(t)

\* ----------------------------------------- physical.rs: PhysicalStream::try_new

TryOk(v) == [err |-> None, value |-> Some(v), panic |-> None]
TryErr(e) == [err |-> Some(e), value |-> None, panic |-> None]

\* the call does not return: it panics with this message
TryPanic(msg) == [err |-> None, value |-> None, panic |-> Some(msg)]

\* x as NonNegative, of a usize
as_NonNegative(x) == x % Word

\* Positive::new
Positive_new(x) == IF x = 0 THEN None ELSE Some(x)

\* path_name.try_into(): TryFrom<&str> for PathName, through Name::try_new
path_name_try_into(name) ==
    IF name = "" THEN TryErr("InvalidArgument") ELSE TryOk(name)

\* the two maps over the fields given, collected into a Result<Vec<_>>:
\* the first item that is an error, else the items
RECURSIVE collect_fields(_, _, _)
collect_fields(given, idx, acc) ==
    IF idx > Len(given) THEN TryOk(acc)
    ELSE LET path == path_name_try_into(given[idx].name)
             positive == Positive_new(as_NonNegative(given[idx].bits))
         IN  IF path.err # None THEN path
             ELSE IF positive = None THEN TryErr("InvalidArgument")
             ELSE collect_fields(given, idx + 1,
                     Append(acc, [name |-> path.value[1],
                                  bits |-> positive[1]]))

\* Fields::new: IndexMap::insert returns the old value of a key that is
\* already there, which is turned into the error
RECURSIVE Fields_new(_, _)
Fields_new(fields, idx) ==
    IF idx > Len(fields) THEN TryOk(fields)
    ELSE IF \E j \in 1..(idx - 1) : fields[j].name = fields[idx].name
         THEN TryErr("UnexpectedDuplicate")
         ELSE Fields_new(fields, idx + 1)

\* PhysicalStream::try_new
PhysicalStream_try_new(element_fields, element_lanes, dimensionality, complexity, user) ==
    LET ec == collect_fields(element_fields, 1, <<>>)
    IN  IF ec.err # None THEN ec
        ELSE LET ef == Fields_new(ec.value[1], 1)
             IN  IF ef.err # None THEN ef
                 ELSE LET lanes == Positive_new(as_NonNegative(element_lanes))
                      IN  IF lanes = None THEN TryErr("InvalidArgument")
                          ELSE LET uc == collect_fields(user, 1, <<>>)
                               IN  IF uc.err # None THEN uc
                                   ELSE LET uf == Fields_new(uc.value[1], 1)
                                        IN  IF uf.err # None THEN uf
                                            ELSE TryOk(PhysicalStream(
                                                     ef.value[1], lanes[1],
                                                     as_NonNegative(dimensionality),
                                                     complexity, uf.value[1]))

\* ------------------------------------------------------ the try_new machine

\* usize values: zero, small ones, and the first two that do not fit a word
GivenSizes == {0, 1, Word, Word + 1}

\* (path name, bit count) items: two names that are valid and the empty one
GivenFields ==
    { [name |-> n, bits |-> w] : n \in {"a", "b"}, w \in GivenSizes }
        \cup { [name |-> "", bits |-> 1] }

GivenUserFields ==
    { [name |-> n, bits |-> w] : n \in {"a", "b"}, w \in {0, 1, Word + 1} }

GivenUpTo(n, items) == UNION { [1..k -> items] : k \in 0..n }

TryIdle ==
    /\ tnpc = "idle"
    /\ tnargs = [element_fields |-> <<>>, element_lanes |-> 1,
                 dimensionality |-> 0, user |-> <<>>]
    /\ tnres = None

TryNew ==
    /\ tnpc = "args"
    /\ \E e \in GivenUpTo(MaxFields, GivenFields),
          n \in {0, 1, 2, Word},
          u \in GivenUpTo(MaxTryUserFields, GivenUserFields) :
            tnargs = [element_fields |-> e, element_lanes |-> n,
                      dimensionality |-> 0, user |-> u]
    /\ tnres = None

\* PhysicalStream::try_new
CallTryNew ==
    /\ tnpc = "args"
    /\ tnres' = Some(PhysicalStream_try_new(tnargs.element_fields,
                    tnargs.element_lanes, tnargs.dimensionality, <<1>>,
                    tnargs.user))
    /\ tnpc' = "returned"
    /\ UNCHANGED tnargs
    /\ UNCHANGED notTry

TryNext == CallTryNew

\* ------------------------------------------ convert.rs: Multilane for Type

\* a throughput is a positive real; the model has the multiples of
\* 1 / ThroughputDen
ThroughputDen == 2

\* throughput.0 > u32::MAX as f64
exceeds_u32_MAX(throughput) == throughput > MaxWord * ThroughputDen

\* throughput.0.ceil() as u32, of a throughput that is at most u32::MAX
ceil_as_u32(throughput) == (throughput + ThroughputDen - 1) \div ThroughputDen

\* Type::Natural and Type::Positive
TNatural == [kind |-> "Natural"]
TPositive == [kind |-> "Positive"]

\* Multilane for Type :: with_throughput
Multilane_with_throughput(t, identity, throughput) ==
    IF exceeds_u32_MAX(throughput) THEN TryErr("InvalidArgument")
    ELSE LET element_lanes == ceil_as_u32(throughput)
         IN  IF element_lanes > 1
             THEN CASE t.kind = "Natural" ->
                         TryPanic("not implemented: natural currently not supported outside of generics")
                    [] t.kind = "Positive" ->
                         TryPanic("not implemented: positive currently not supported outside of generics")
                    [] OTHER -> TryOk(with_throughput(t, identity, element_lanes))
             ELSE TryOk(t)

\* ------------------------------------------------ the with_throughput machine

\* the types with_throughput is called on: one of every variant
LaneTypes ==
    { Bit, TNatural, TPositive, BitVec(1), BitVec(2),
      TRecord(Record("r", <<Field("x", Bit, FALSE, None)>>)),
      TUnion(Record("r", <<Field("x", Bit, FALSE, None)>>)),
      TArray(Array("r_array", BitVec(2), 2)) }

\* the throughputs: every multiple up to one past u32::MAX
Throughputs == 1..((MaxWord + 1) * ThroughputDen)

LaneIdle ==
    /\ wpc = "idle"
    /\ wtyp = Bit
    /\ wid = ""
    /\ wthr = ThroughputDen
    /\ wres = None

LaneNew ==
    /\ wpc = "args"
    /\ wtyp \in LaneTypes
    /\ wid \in {"a", "a_data"}
    /\ wthr \in Throughputs
    /\ wres = None

\* Multilane for Type :: with_throughput
CallWithThroughput ==
    /\ wpc = "args"
    /\ wres' = Some(Multilane_with_throughput(wtyp, wid, wthr))
    /\ wpc' = "returned"
    /\ UNCHANGED <<wtyp, wid, wthr>>
    /\ UNCHANGED notLane

LaneNext == CallWithThroughput

\* --------------------------------------------- the stages and their outcomes

\* the panic of unwrap() on an Err
UnwrapErr == "called Result::unwrap() on an Err value"

\* the panic of unreachable!()
Unreachable == "internal error: entered unreachable code"

\* the lane count of the physical stream synthesize makes for a throughput:
\* its ceiling, as a u32
synthesize_lanes(throughput) ==
    IF exceeds_u32_MAX(throughput) THEN MaxWord ELSE ceil_as_u32(throughput)

\* Typify for Stream :: fancy of a stream with this throughput, phys being
\* the physical stream of synthesize: the result of with_throughput is
\* unwrapped before the record is built
Stream_fancy(phys, pre, throughput) ==
    IF StreamIsNull(phys) THEN TryOk(None)
    ELSE LET data == Multilane_with_throughput(
                         GroupFancy(phys.element_fields, cat(pre, "data")),
                         cat(pre, "data"), throughput)
         IN  IF data.value = None THEN TryPanic(UnwrapErr)
             ELSE TryOk(StreamFancy(phys, pre))

\* the stream that is rendered: one bit of data
StagePhys(throughput) ==
    PhysicalStream(<<[name |-> "a", bits |-> 1]>>, synthesize_lanes(throughput),
                   0, <<1>>, <<>>)

\* the types that are declared: records and unions of up to two bits, arrays
\* of one-field records and the nested records of the test
StageTypes ==
    { TRecord(rec) : rec \in LeafRecords("r", 2) }
        \cup { TUnion(rec) : rec \in LeafRecords("r", 2) }
        \cup { TArray(Array("r_array", TRecord(rec), 2)) :
                  rec \in LeafRecords("r", 1) }
        \cup { NestedRec(ra, rb) : ra, rb \in BOOLEAN }

\* throughputs around one lane and around the largest lane count
StageThroughputs ==
    { 1, ThroughputDen, ThroughputDen + 1, 2 * ThroughputDen,
      MaxWord * ThroughputDen + 1, (MaxWord + 1) * ThroughputDen }

StageIdle ==
    /\ xpc = "idle"
    /\ xtyp = Bit
    /\ xthr = ThroughputDen
    /\ xres = None

StageNew ==
    /\ xpc = "new"
    /\ xtyp \in StageTypes
    /\ xthr \in StageThroughputs
    /\ xres = None

\* DeclareType for Type, of a root type
CallTypeDeclare ==
    /\ xpc = "new"
    /\ xres' = Some(TypeDeclare(xtyp, TRUE))
    /\ xpc' = "declared"
    /\ UNCHANGED <<xtyp, xthr>>
    /\ UNCHANGED notStage

\* Declare for Vec<Port>, of one port of this type
CallPortsDeclare ==
    /\ xpc = "new"
    /\ \E mode \in {"In", "Out"} :
          xres' = Some(PortsDeclare(<<Port("p", mode, xtyp)>>))
    /\ xpc' = "ports"
    /\ UNCHANGED <<xtyp, xthr>>
    /\ UNCHANGED notStage

\* Typify for Stream :: fancy
CallStreamFancy ==
    /\ xpc = "new"
    /\ xres' = Some(Stream_fancy(StagePhys(xthr), "a", xthr))
    /\ xpc' = "fancy"
    /\ UNCHANGED <<xtyp, xthr>>
    /\ UNCHANGED notStage

StageNext ==
    \/ CallTypeDeclare
    \/ CallPortsDeclare
    \/ CallStreamFancy

\* ------------------------------------- architecture/statement: PortMapping

\* IndexMap::insert of a sequence of keyed entries: a key that is there keeps
\* its position and gets the new entry
IndexMapInsert(map, entry) ==
    IF \E i \in 1..Len(map) : map[i].identifier = entry.identifier
    THEN [i \in 1..Len(map) |->
            IF map[i].identifier = entry.identifier THEN entry ELSE map[i]]
    ELSE Append(map, entry)

\* ObjectDeclaration::component_port
component_port(p) == [identifier |-> p.name, typ |-> p.typ, mode |-> p.mode]

\* ObjectDeclaration::from_port: the halves of a port with reversed fields
\* that are there, else the port
from_port(port) ==
    IF PortHasReversed(port)
    THEN [i \in 1..Len(PortSplit(port)[1]) |-> component_port(PortSplit(port)[1][i])]
            \o [i \in 1..Len(PortSplit(port)[2]) |-> component_port(PortSplit(port)[2][i])]
    ELSE <<component_port(port)>>

RECURSIVE InsertAll(_, _)
InsertAll(map, objs) ==
    IF objs = <<>> THEN map
    ELSE InsertAll(IndexMapInsert(map, objs[1]), Tail(objs))

\* PortMapping::from_component: the ports
RECURSIVE from_component(_, _)
from_component(ports, map) ==
    IF ports = <<>> THEN map
    ELSE from_component(Tail(ports), InsertAll(map, from_port(ports[1])))

\* the identifiers of an IndexMap
Keys(map) == { map[i].identifier : i \in 1..Len(map) }

\* IndexMap::get
IndexMapGet(map, identifier) ==
    IF identifier \in Keys(map)
    THEN Some(CHOOSE o \in { map[i] : i \in 1..Len(map) } : o.identifier = identifier)
    ELSE None

\* Assign for ObjectDeclaration: the assignment has to be one for the type
\* of the object
assign(object, assignment) ==
    IF assignment.kind = object.typ.kind
    THEN TryOk([object |-> object.identifier, assignment |-> assignment])
    ELSE TryErr("InvalidTarget")

\* PortMapping::map_port, on (ports, mappings): the result and the mappings
\* afterwards; map_generic is the same on (generics, generic_mappings)
map_port(ports, maps, identifier, assignment) ==
    IF IndexMapGet(ports, identifier) = None
    THEN [result |-> TryErr("InvalidArgument"), mappings |-> maps]
    ELSE LET assigned == assign(IndexMapGet(ports, identifier)[1], assignment)
         IN  IF assigned.err # None
             THEN [result |-> assigned, mappings |-> maps]
             ELSE [result |-> TryOk(identifier),
                   mappings |-> (identifier :> assigned.value[1]) @@ maps]

\* PortMapping::finish, comparing the numbers of ports and of mappings
finish_at_least(ports, maps) ==
    IF Len(ports) >= Cardinality(DOMAIN maps)
    THEN TryOk("self") ELSE TryErr("BackEndError")

\* PortMapping::finish
finish(ports, maps) ==
    IF Len(ports) = Cardinality(DOMAIN maps)
    THEN TryOk("self") ELSE TryErr("BackEndError")

\* ------------------------------------------------ the port mapping machine

\* the types of the ports: a bit, a record of both directions, a record
\* whose fields are all reversed
MapTypes ==
    { Bit,
      TRecord(Record("r", <<Field("x", Bit, FALSE, None), Field("y", Bit, TRUE, None)>>)),
      TRecord(Record("r", <<Field("y", Bit, TRUE, None)>>)) }

\* the components: ports a, b, ... of these types, and one with two ports
\* of the same name
MapComponents ==
    UNION { { [i \in 1..k |-> Port(FieldNames[i], "In", t[i])] :
                t \in [1..k -> MapTypes] } : k \in 0..MaxMapPorts }
        \cup { <<Port("a", "In", Bit), Port("a", "Out", Bit)>> }

\* the assignments handed in: a std_logic value and a record
Assignments == { [kind |-> "Bit", value |-> "0"], [kind |-> "Bit", value |-> "1"],
                 [kind |-> "Record", value |-> "rec"] }

\* the identifiers handed in: those of the component and one that is none
MapIdentifiers(map) == Keys(map) \cup {"nope"}

MapIdle ==
    /\ mpc = "idle"
    /\ mcomp = <<>>
    /\ mports = <<>>
    /\ mappings = <<>>
    /\ generics = <<>>
    /\ generic_mappings = <<>>
    /\ mcall = None
    /\ mfinish = None

\* PortMapping::from_component
MapNew ==
    /\ mpc = "new"
    /\ mcomp \in MapComponents
    /\ mports = from_component(mcomp, <<>>)
    /\ mappings = <<>>
    /\ generics \in { <<>>, <<[identifier |-> "g", typ |-> Bit, mode |-> "In"]>> }
    /\ generic_mappings = <<>>
    /\ mcall = None
    /\ mfinish = None

\* PortMapping::map_port
MapPort ==
    /\ mpc \in {"new", "mapping"}
    /\ \E identifier \in MapIdentifiers(mports), assignment \in Assignments :
          \E r \in {map_port(mports, mappings, identifier, assignment)} :
            /\ mappings' = r.mappings
            /\ mcall' = Some([op |-> "map_port", identifier |-> identifier,
                              assignment |-> assignment, result |-> r.result,
                              before |-> mappings])
    /\ mpc' = "mapping"
    /\ UNCHANGED <<mcomp, mports, generics, generic_mappings, mfinish>>
    /\ UNCHANGED notMap

\* PortMapping::map_generic
MapGeneric ==
    /\ mpc \in {"new", "mapping"}
    /\ \E identifier \in MapIdentifiers(generics), assignment \in Assignments :
          \E r \in {map_port(generics, generic_mappings, identifier, assignment)} :
            /\ generic_mappings' = r.mappings
            /\ mcall' = Some([op |-> "map_generic", identifier |-> identifier,
                              assignment |-> assignment, result |-> r.result,
                              before |-> generic_mappings])
    /\ mpc' = "mapping"
    /\ UNCHANGED <<mcomp, mports, mappings, generics, mfinish>>
    /\ UNCHANGED notMap

\* PortMapping::finish
Finish_mapping ==
    /\ mpc \in {"new", "mapping"}
    /\ mfinish' = Some(finish(mports, mappings))
    /\ mpc' = "finished"
    /\ UNCHANGED <<mcomp, mports, mappings, generics, generic_mappings, mcall>>
    /\ UNCHANGED notMap

MapNext ==
    \/ MapPort
    \/ MapGeneric
    \/ Finish_mapping

\* ------------------------------------- the machine of a port and its type

\* the records and unions of up to n fields, each a bit, a nested record or
\* an array of records
RECURSIVE RootRecords(_, _)
RootRecords(id, n) ==
    IF n = 0 THEN { Record(id, <<>>) }
    ELSE RootRecords(id, n - 1) \cup
         { Record(id, Append(rec.fields, f)) :
             rec \in { r \in RootRecords(id, n - 1) : Len(r.fields) = n - 1 },
             f \in RootFields(id, FieldNames[n]) }

\* a record of a bit and an array of records of several fields
ArrayRecords(id) ==
    { Record(id, <<Field("a", Bit, r1, None),
                   Field("b", TArray(Array(cat(cat(id, "b"), "array"),
                                           TRecord(rec), 2)), r2, None)>>) :
        r1 \in BOOLEAN, r2 \in BOOLEAN,
        rec \in LeafRecords(cat(id, "b"), MaxFields) \ {Record(cat(id, "b"), <<>>)} }

SuffixIdle ==
    /\ qpc = "idle"
    /\ qport = Port("p", "In", Bit)
    /\ qhalves = <<None, None>>
    /\ qdecl = None

SuffixNew ==
    /\ qpc = "new"
    /\ \E mode \in {"In", "Out"} :
          \/ \E rec \in RootRecords("r", MaxRootFields) \cup ArrayRecords("r") :
                qport \in { Port("p", mode, TRecord(rec)), Port("p", mode, TUnion(rec)) }
          \/ \E r1, r2, r3 \in BOOLEAN :
                qport \in { Port("p", mode, Chain(r1, r2, r3)),
                            Port("p", mode, NestedRec(r1, r2)) }
    /\ qhalves = <<None, None>>
    /\ qdecl = None

\* Port::split
SplitPort ==
    /\ qpc = "new"
    /\ qhalves' = PortSplit(qport)
    /\ qpc' = "split"
    /\ UNCHANGED <<qport, qdecl>>
    /\ UNCHANGED notSuffix

\* DeclareType for Type :: declare(true), of the type of the port
DeclarePortType ==
    /\ qpc = "split"
    /\ qdecl' = Some(TypeDeclare(qport.typ, TRUE))
    /\ qpc' = "declared"
    /\ UNCHANGED <<qport, qhalves>>
    /\ UNCHANGED notSuffix

SuffixNext ==
    \/ SplitPort
    \/ DeclarePortType

\* ------------------------------------------- physical.rs: Fields::insert

\* Fields::insert: IndexMap::insert stores the bit count under the path
\* name, in place when the name is there already, and returns the old value;
\* Some(old) is mapped to Err(UnexpectedDuplicate)
Fields_insert(map, path_name, path_bit_count) ==
    IF \E k \in 1..Len(map) : map[k].name = path_name
    THEN [map |-> [k \in 1..Len(map) |->
                      IF map[k].name = path_name
                      THEN [map[k] EXCEPT !.bits = path_bit_count] ELSE map[k]],
          result |-> TryErr("UnexpectedDuplicate")]
    ELSE [map |-> Append(map, [name |-> path_name, bits |-> path_bit_count]),
          result |-> TryOk(<<>>)]

InsertNames == { FieldNames[i] : i \in 1..MaxFields }
InsertBitCounts == 1..(MaxWidth + 1)

FieldsIdle ==
    /\ fpc = "idle"
    /\ fmap = <<>>
    /\ fbefore = <<>>
    /\ fcall = None
    /\ fcount = 0

\* Fields::new_empty
FieldsNew ==
    /\ fpc = "new"
    /\ fmap = <<>>
    /\ fbefore = <<>>
    /\ fcall = None
    /\ fcount = 0

\* Fields::insert
CallInsert ==
    /\ fpc = "new"
    /\ fcount < MaxInserts
    /\ \E path_name \in InsertNames, path_bit_count \in InsertBitCounts :
          \E r \in {Fields_insert(fmap, path_name, path_bit_count)} :
              /\ fmap' = r.map
              /\ fcall' = Some([name |-> path_name, bits |-> path_bit_count,
                                result |-> r.result])
    /\ fbefore' = fmap
    /\ fcount' = fcount + 1
    /\ UNCHANGED fpc
    /\ UNCHANGED notFields

FieldsNext == CallInsert

\* ----------------------------- convert.rs: the names of canonical ports

\* Display for PathName: the names joined with two underscores
RECURSIVE path_to_string(_)
path_to_string(path) ==
    IF path = <<>> THEN <<>>
    ELSE IF Len(path) = 1 THEN path[1]
    ELSE path[1] \o <<"_", "_">> \o path_to_string(Tail(path))

\* the identifier of a signal is one word without an underscore
signal_identifier(s) == <<s.name>>

\* Portify for Interface :: canonical, the names of the ports: a leaf of
\* bits gives the port cat!(n, path), a stream the ports
\* cat!(n, path, s.identifier()) of the signals of its signal list
canonical_names(i, n) ==
    IF i.leaf = "bits" THEN <<cat_names(n, path_to_string(i.path))>>
    ELSE [k \in 1..Len(StreamSignals(StreamAt(1))) |->
            cat_names(n, cat_names(path_to_string(i.path),
                                   signal_identifier(StreamSignals(StreamAt(1))[k])))]

\* Componentify for Streamlet :: canonical, the names of all_ports
canonical_port_names(interfaces) ==
    <<<<"c", "l", "k">>, <<"r", "s", "t">>>>
        \o Flatten([k \in 1..Len(SelectSeq(interfaces, IsInput)) |->
                canonical_names(SelectSeq(interfaces, IsInput)[k],
                                SelectSeq(interfaces, IsInput)[k].name)])
        \o Flatten([k \in 1..Len(SelectSeq(interfaces, IsOutput)) |->
                canonical_names(SelectSeq(interfaces, IsOutput)[k],
                                SelectSeq(interfaces, IsOutput)[k].name)])

\* the names Name::try_new accepts
ValidNames ==
    { n \in UNION { RawOfLen(k) : k \in 1..MaxNameLen } \cup {<<"c", "l", "k">>} :
        try_new(n) }

\* the paths of a stream or of a leaf: no name or one name
CanonPaths == { <<>> } \cup { <<n>> : n \in ValidNames \ {<<"c", "l", "k">>} }

CanonIdle ==
    /\ kpc = "idle"
    /\ kifaces = <<>>
    /\ kports = <<>>

\* a streamlet with two interfaces of different valid names
CanonNew ==
    /\ kpc = "new"
    /\ \E n1 \in ValidNames : \E n2 \in ValidNames \ {n1} :
       \E p1 \in CanonPaths, p2 \in CanonPaths :
       \E l1 \in {"stream", "bits"}, l2 \in {"stream", "bits"}, m2 \in {"In", "Out"} :
          kifaces = <<[name |-> n1, mode |-> "In", path |-> p1, leaf |-> l1],
                      [name |-> n2, mode |-> m2, path |-> p2, leaf |-> l2]>>
    /\ kports = <<>>

\* Streamlet::canonical
CallStreamletCanonical ==
    /\ kpc = "new"
    /\ kports' = canonical_port_names(kifaces)
    /\ kpc' = "canonical"
    /\ UNCHANGED kifaces
    /\ UNCHANGED notCanon

CanonNext == CallStreamletCanonical

\* the variables of the machines that are not in use keep their idle values
PhysInit == PhysNew /\ SplitIdle /\ GenIdle /\ PortIdle /\ CmpIdle /\ NameIdle /\ LibIdle /\ UseIdle /\ SliceIdle /\ TryIdle /\ LaneIdle /\ StageIdle /\ MapIdle /\ SuffixIdle /\ FieldsIdle /\ CanonIdle

SpecPhys == PhysInit /\ [][PhysNext]_vars

SplitInit == SplitNew /\ PhysIdle /\ GenIdle /\ PortIdle /\ CmpIdle /\ NameIdle /\ LibIdle /\ UseIdle /\ SliceIdle /\ TryIdle /\ LaneIdle /\ StageIdle /\ MapIdle /\ SuffixIdle /\ FieldsIdle /\ CanonIdle

SpecSplit == SplitInit /\ [][SplitNext]_vars

GenInit == GenNew /\ PhysIdle /\ SplitIdle /\ PortIdle /\ CmpIdle /\ NameIdle /\ LibIdle /\ UseIdle /\ SliceIdle /\ TryIdle /\ LaneIdle /\ StageIdle /\ MapIdle /\ SuffixIdle /\ FieldsIdle /\ CanonIdle

SpecGen == GenInit /\ [][GenNext]_vars

PortInit == PortNew /\ PhysIdle /\ SplitIdle /\ GenIdle /\ CmpIdle /\ NameIdle /\ LibIdle /\ UseIdle /\ SliceIdle /\ TryIdle /\ LaneIdle /\ StageIdle /\ MapIdle /\ SuffixIdle /\ FieldsIdle /\ CanonIdle

SpecPort == PortInit /\ [][PortNext]_vars

CmpInit == CmpNew /\ PhysIdle /\ SplitIdle /\ GenIdle /\ PortIdle /\ NameIdle /\ LibIdle /\ UseIdle /\ SliceIdle /\ TryIdle /\ LaneIdle /\ StageIdle /\ MapIdle /\ SuffixIdle /\ FieldsIdle /\ CanonIdle

SpecCmp == CmpInit /\ [][CmpNext]_vars

NameInit == NameNew /\ PhysIdle /\ SplitIdle /\ GenIdle /\ PortIdle /\ CmpIdle /\ LibIdle /\ UseIdle /\ SliceIdle /\ TryIdle /\ LaneIdle /\ StageIdle /\ MapIdle /\ SuffixIdle /\ FieldsIdle /\ CanonIdle

SpecName == NameInit /\ [][NameNext]_vars

LibInit == LibNew /\ PhysIdle /\ SplitIdle /\ GenIdle /\ PortIdle /\ CmpIdle /\ NameIdle /\ UseIdle /\ SliceIdle /\ TryIdle /\ LaneIdle /\ StageIdle /\ MapIdle /\ SuffixIdle /\ FieldsIdle /\ CanonIdle

SpecLib == LibInit /\ [][LibNext]_vars

UseInit == UseNew /\ PhysIdle /\ SplitIdle /\ GenIdle /\ PortIdle /\ CmpIdle /\ NameIdle /\ LibIdle /\ SliceIdle /\ TryIdle /\ LaneIdle /\ StageIdle /\ MapIdle /\ SuffixIdle /\ FieldsIdle /\ CanonIdle

SpecUse == UseInit /\ [][UseNext]_vars

SliceInit == SliceNew /\ PhysIdle /\ SplitIdle /\ GenIdle /\ PortIdle /\ CmpIdle /\ NameIdle /\ LibIdle /\ UseIdle /\ TryIdle /\ LaneIdle /\ StageIdle /\ MapIdle /\ SuffixIdle /\ FieldsIdle /\ CanonIdle

SpecSlice == SliceInit /\ [][SliceNext]_vars

TryInit == TryNew /\ PhysIdle /\ SplitIdle /\ GenIdle /\ PortIdle /\ CmpIdle /\ NameIdle /\ LibIdle /\ UseIdle /\ SliceIdle /\ LaneIdle /\ StageIdle /\ MapIdle /\ SuffixIdle /\ FieldsIdle /\ CanonIdle

SpecTry == TryInit /\ [][TryNext]_vars

LaneInit == LaneNew /\ PhysIdle /\ SplitIdle /\ GenIdle /\ PortIdle /\ CmpIdle /\ NameIdle /\ LibIdle /\ UseIdle /\ SliceIdle /\ TryIdle /\ StageIdle /\ MapIdle /\ SuffixIdle /\ FieldsIdle /\ CanonIdle

SpecLane == LaneInit /\ [][LaneNext]_vars

StageInit == StageNew /\ PhysIdle /\ SplitIdle /\ GenIdle /\ PortIdle /\ CmpIdle /\ NameIdle /\ LibIdle /\ UseIdle /\ SliceIdle /\ TryIdle /\ LaneIdle /\ MapIdle /\ SuffixIdle /\ FieldsIdle /\ CanonIdle

SpecStage == StageInit /\ [][StageNext]_vars

MapInit == MapNew /\ PhysIdle /\ SplitIdle /\ GenIdle /\ PortIdle /\ CmpIdle /\ NameIdle /\ LibIdle /\ UseIdle /\ SliceIdle /\ TryIdle /\ LaneIdle /\ StageIdle /\ SuffixIdle /\ FieldsIdle /\ CanonIdle

SpecMap == MapInit /\ [][MapNext]_vars

SuffixInit == SuffixNew /\ PhysIdle /\ SplitIdle /\ GenIdle /\ PortIdle /\ CmpIdle /\ NameIdle /\ LibIdle /\ UseIdle /\ SliceIdle /\ TryIdle /\ LaneIdle /\ StageIdle /\ MapIdle /\ FieldsIdle /\ CanonIdle

SpecSuffix == SuffixInit /\ [][SuffixNext]_vars

FieldsInit == FieldsNew /\ PhysIdle /\ SplitIdle /\ GenIdle /\ PortIdle /\ CmpIdle /\ NameIdle /\ LibIdle /\ UseIdle /\ SliceIdle /\ TryIdle /\ LaneIdle /\ StageIdle /\ MapIdle /\ SuffixIdle /\ CanonIdle

SpecFields == FieldsInit /\ [][FieldsNext]_vars

CanonInit == CanonNew /\ PhysIdle /\ SplitIdle /\ GenIdle /\ PortIdle /\ CmpIdle /\ NameIdle /\ LibIdle /\ UseIdle /\ SliceIdle /\ TryIdle /\ LaneIdle /\ StageIdle /\ MapIdle /\ SuffixIdle /\ FieldsIdle

SpecCanon == CanonInit /\ [][CanonNext]_vars

\* ---------------------------------------------- claims on physical streams

PhysReturned == ppc \in {"listed", "counted", "iterated"}

\* the accessor of each optional signal, and the count it is derived from
OptSignal(s, n) ==
    CASE n = "data" -> SignalList_data(s)
      [] n = "last" -> SignalList_last(s)
      [] n = "stai" -> SignalList_stai(s)
      [] n = "endi" -> SignalList_endi(s)
      [] n = "strb" -> SignalList_strb(s)
      [] n = "user" -> SignalList_user(s)

CountOf(p, n) ==
    CASE n = "data" -> data_bit_count(p)
      [] n = "last" -> last_bit_count(p)
      [] n = "stai" -> stai_bit_count(p)
      [] n = "endi" -> endi_bit_count(p)
      [] n = "strb" -> strb_bit_count(p)
      [] n = "user" -> user_bit_count(p)

OptionalNames == {"data", "last", "stai", "endi", "strb", "user"}
SignalOrder ==
    <<"valid", "ready", "data", "last", "stai", "endi", "strb", "user">>

\* C7: each of data, last, stai, endi, strb and user is present in the signal
\* list exactly when the stream's bit count of that name is non-zero, and a
\* present signal is a vector as wide as that bit count.
C7_PresentIffNonZero ==
    PhysReturned =>
        \A n \in OptionalNames :
            /\ (OptSignal(sl[1], n) # None) <=> (CountOf(ps, n) # 0)
            /\ OptSignal(sl[1], n) # None =>
                   OptSignal(sl[1], n)[1].width = Vector(CountOf(ps, n))

\* a stream with strb and endi but without stai and user
C7_Witness ==
    /\ ppc = "listed"
    /\ sl[1].stai = None /\ sl[1].user = None
    /\ sl[1].endi # None /\ sl[1].strb # None /\ sl[1].data # None

SigNames(ss) == [i \in 1..Len(ss) |-> ss[i].name]

IsPresentName(n) ==
    n \in {"valid", "ready"} \/ (n \in OptionalNames /\ sl[1][n] # None)

\* C8: iteration yields valid, ready, data, last, stai, endi, strb, user in
\* this order, leaving out exactly the absent optional signals.
C8_FixedOrder ==
    ppc = "iterated" => SigNames(sigs) = SelectSeq(SignalOrder, IsPresentName)

\* an iteration that skips stai between last and endi
C8_Witness ==
    /\ ppc = "iterated"
    /\ SigNames(sigs) = <<"valid", "ready", "data", "last", "endi", "strb">>

\* C9: valid and ready are always in the list, both scalar; valid comes from
\* the source, ready from the sink, and no other signal comes from the sink.
C9_ValidReady ==
    ppc = "iterated" =>
        /\ \E i \in 1..Len(sigs) : sigs[i].name = "valid"
        /\ \E i \in 1..Len(sigs) : sigs[i].name = "ready"
        /\ \A i \in 1..Len(sigs) :
              /\ sigs[i].name \in {"valid", "ready"} => sigs[i].width = Scalar
              /\ sigs[i].origin = (IF sigs[i].name = "ready" THEN "Sink"
                                                              ELSE "Source")

\* an iteration over all eight signals
C9_Witness == ppc = "iterated" /\ Len(sigs) = 8

SixCounts(p) ==
    data_bit_count(p) + last_bit_count(p) + stai_bit_count(p)
        + endi_bit_count(p) + strb_bit_count(p) + user_bit_count(p)

\* C10: bit_count() of a stream is the sum of its six bit counts (in the
\* arithmetic of NonNegative, and exactly that sum whenever it fits), the
\* signal list reports the same total, and the documented streams a:4, b:8
\* on two lanes give 24 at complexity 2 and 28 at complexity 8.
C10_WidthConservation ==
    ppc \in {"counted", "iterated"} =>
        /\ counts[1] = SixCounts(ps) % Word
        /\ SixCounts(ps) <= MaxWord => counts[1] = SixCounts(ps)
        /\ SignalList_bit_count(sl[1]) = counts[1]
        /\ ps = DocStream(2) => SignalList_bit_count(sl[1]) = 24
        /\ ps = DocStream(8) => SignalList_bit_count(sl[1]) = 28

\* the documented stream at complexity 8, after bit_count returned 28
C10_Witness ==
    /\ ppc = "counted"
    /\ ps = DocStream(8)
    /\ counts = Some(28)

\* ------------------------------------------------------- claims on split

RECURSIVE NoReversed(_), AllReversed(_), NoEmptyRecord(_), NoArray(_)
RECURSIVE ClearReversed(_), ClearFields(_), LeafPaths(_), FieldPaths(_)
RECURSIVE RecLeafPaths(_), ReversedOnPath(_, _)

FieldsOf(t) == { t.rec.fields[i] : i \in 1..Len(t.rec.fields) }

\* no field at any depth is reversed / every field at every depth is
NoReversed(t) ==
    IsRec(t) => \A f \in FieldsOf(t) : ~f.reversed /\ NoReversed(f.typ)
AllReversed(t) ==
    IsRec(t) => \A f \in FieldsOf(t) : f.reversed /\ AllReversed(f.typ)

\* every record at every depth has a field
NoEmptyRecord(t) ==
    IsRec(t) => /\ t.rec.fields # <<>>
                /\ \A f \in FieldsOf(t) : NoEmptyRecord(f.typ)

\* built from records, unions and bit types only
NoArray(t) ==
    /\ t.kind # "Array"
    /\ IsRec(t) => \A f \in FieldsOf(t) : NoArray(f.typ)

\* the type with every reversed flag cleared
ClearReversed(t) ==
    IF IsRec(t)
    THEN [t EXCEPT !.rec.fields =
             [i \in 1..Len(t.rec.fields) |->
                 [t.rec.fields[i] EXCEPT !.reversed = FALSE,
                                         !.typ = ClearReversed(@)]]]
    ELSE t

\* the type with every reversed flag cleared and every documentation dropped
ClearFields(t) ==
    IF IsRec(t)
    THEN [t EXCEPT !.rec.fields =
             [i \in 1..Len(t.rec.fields) |->
                 [t.rec.fields[i] EXCEPT !.reversed = FALSE, !.doc = None,
                                         !.typ = ClearFields(@)]]]
    ELSE t

\* the paths of field names from a record to its leaf fields: the fields
\* whose type is neither a record nor a union
RecLeafPaths(t) ==
    IF IsRec(t)
    THEN UNION { { <<f.name>> \o q : q \in RecLeafPaths(f.typ) } : f \in FieldsOf(t) }
    ELSE { <<>> }

\* the same paths continued through the element type of an array
LeafPaths(t) ==
    CASE IsRec(t) ->
            UNION { { <<f.name>> \o q : q \in LeafPaths(f.typ) } : f \in FieldsOf(t) }
      [] t.kind = "Array" -> LeafPaths(t.arr.typ)
      [] OTHER -> { <<>> }

\* the paths to all fields, leaf or not
FieldPaths(t) ==
    CASE IsRec(t) ->
            UNION { { <<f.name>> } \cup { <<f.name>> \o q : q \in FieldPaths(f.typ) } :
                    f \in FieldsOf(t) }
      [] t.kind = "Array" -> FieldPaths(t.arr.typ)
      [] OTHER -> {}

\* the number of reversed flags on the fields along a path of a record
ReversedOnPath(t, p) ==
    IF p = <<>> THEN 0
    ELSE LET f == CHOOSE g \in FieldsOf(t) : g.name = p[1]
         IN  (IF f.reversed THEN 1 ELSE 0) + ReversedOnPath(f.typ, Tail(p))

AllOdd(t) == \A p \in RecLeafPaths(t) : ReversedOnPath(t, p) % 2 = 1

\* C3 as stated: a record or union none of whose fields is reversed splits
\* into (Some(t), None) with t the original, and one whose fields are all
\* reversed into (None, Some(t')) with t' the original with every reversed
\* flag cleared.
C3_AsStated ==
    (spc = "type" /\ IsRec(st)) =>
        /\ NoReversed(st) => sres = <<Some(st), None>>
        /\ AllReversed(st) => sres = <<None, Some(ClearReversed(st))>>

\* C3: for a record or union, nested to any depth, in which every record has
\* a field: if no field is reversed split returns (Some(t), None), and if
\* every leaf field has an odd number of reversed flags along its path it
\* returns (None, Some(t)), where t is the original with every reversed flag
\* cleared and the documentation of every field dropped.
C3_PureHalves ==
    (spc = "type" /\ IsRec(st) /\ NoArray(st) /\ NoEmptyRecord(st)) =>
        /\ NoReversed(st) => sres = <<Some(ClearFields(st)), None>>
        /\ AllOdd(st) => sres = <<None, Some(ClearFields(st))>>

\* a union with a reversed nested record splits into the up half alone
C3_Witness ==
    /\ spc = "type"
    /\ st.kind = "Union" /\ NoArray(st) /\ NoEmptyRecord(st) /\ AllOdd(st)
    /\ \E f \in FieldsOf(st) : IsRec(f.typ)
    /\ sres = <<None, Some(ClearFields(st))>>

\* the original and the two halves of a split, as types
HalfType(h) ==
    IF h = None THEN None
    ELSE CASE spc = "array" -> Some(TArray(h[1]))
           [] spc = "port" -> Some(h[1].typ)
           [] OTHER -> h

\* the paths of a half that may be None
OptLeafPaths(o) == IF o = None THEN {} ELSE LeafPaths(o[1])
OptFieldPaths(o) == IF o = None THEN {} ELSE FieldPaths(o[1])
OptRecLeafPaths(o) == IF o = None THEN {} ELSE RecLeafPaths(o[1])

\* C4: every leaf field of the original is, under the same path, in exactly
\* one of the halves returned by split of a type, an array or a port, and
\* neither half has a field the original does not have.
C4_Partition ==
    spc \in {"type", "array", "port"} =>
        LET D == OptLeafPaths(HalfType(sres[1]))
            U == OptLeafPaths(HalfType(sres[2]))
        IN  /\ D \cup U = LeafPaths(st)
            /\ D \cap U = {}
            /\ OptFieldPaths(HalfType(sres[1])) \subseteq FieldPaths(st)
            /\ OptFieldPaths(HalfType(sres[2])) \subseteq FieldPaths(st)

\* a port whose nested record is itself divided over both halves
C4_Witness ==
    /\ spc = "port"
    /\ sres[1] # None /\ sres[2] # None
    /\ \E p \in LeafPaths(sres[1][1].typ), q \in LeafPaths(sres[2][1].typ) :
          Len(p) = 2 /\ Len(q) = 2 /\ p[1] = q[1]

\* C5: Record::split puts a leaf field in the down half exactly when the
\* number of reversed flags along its path is even, and in the up half
\* exactly when it is odd.
C5_Parity ==
    (spc = "type" /\ IsRec(st)) =>
        \A p \in RecLeafPaths(st) :
            /\ p \in OptRecLeafPaths(sres[1]) <=> ReversedOnPath(st, p) % 2 = 0
            /\ p \in OptRecLeafPaths(sres[2]) <=> ReversedOnPath(st, p) % 2 = 1

\* three reversed flags on a path: the leaf is in the up half
C5_Witness ==
    /\ spc = "type"
    /\ st = Chain(TRUE, TRUE, TRUE)
    /\ <<"a", "a", "a">> \in OptRecLeafPaths(sres[2])

\* ---------------------------------------------------- claims on generate

\* the types Package::declare looks at, in the order it does
VisitedTypes(p) ==
    Flatten([k \in 1..Len(p.components) |-> list_nested_types(p.components[k])])

\* the types reachable from the ports of a package
ReachableTypes(p) ==
    LET nested == Flatten([i \in 1..Len(VisitedTypes(p)) |->
                              TypeNestedTypes(VisitedTypes(p)[i])])
    IN  { nested[i] : i \in 1..Len(nested) }

\* two different types with one identifier
Conflicting(types) ==
    \E t1, t2 \in types :
        t1 # t2 /\ TypeIdentifier(t1) = TypeIdentifier(t2)

\* the identifiers of the type declarations of a text, in order
IsTypeDeclaration(item) == "id" \in DOMAIN item
DeclaredIds(text) ==
    LET decls == SelectSeq(text, IsTypeDeclaration)
    IN  [i \in 1..Len(decls) |-> decls[i].id]

DeclareReturnedOk == gpc \in {"write", "opened", "wrappers"}

\* C1: whenever Package::declare returns Ok, its text declares every type
\* identifier at most once, and it does not return Ok for a package from
\* whose ports two different types with the same identifier can be reached.
C1_DeclaredOnce ==
    DeclareReturnedOk =>
        /\ \A i, j \in 1..Len(DeclaredIds(dresult)) :
              i # j => DeclaredIds(dresult)[i] # DeclaredIds(dresult)[j]
        /\ ~Conflicting(ReachableTypes(pkg))

\* the conflict Package::declare looks for: between the types of two ports
MeetsConflict ==
    Conflicting({ VisitedTypes(pkg)[i] : i \in 1..Len(VisitedTypes(pkg)) })

IsConflictError(r) ==
    \E id \in { TypeIdentifier(t) : t \in ReachableTypes(pkg) } :
        r = Some(ConflictError(id))

\* C2 as stated: when generate meets a type-name conflict it returns the
\* conflict error and no package file of that library exists afterwards.
C2_AsStated ==
    (gpc = "returned" /\ MeetsConflict) =>
        IsConflictError(gret) /\ pfile = None

\* C2: when generate meets a type-name conflict it returns the conflict
\* error and the package file of that library is at every moment as it was
\* before the call: not created if there was none, neither truncated nor
\* rewritten if there was one.
C2_FileUntouched ==
    MeetsConflict =>
        /\ pfile = pfile0
        /\ ~DeclareReturnedOk
        /\ gpc = "returned" => IsConflictError(gret)

\* a conflict between ports of two components, with a package file left by
\* an earlier run
C2_Witness ==
    /\ gpc = "returned"
    /\ MeetsConflict
    /\ Len(pkg.components) = 2
    /\ IsConflictError(gret)
    /\ pfile0 = Some(OldText)
    /\ pfile = Some(OldText)

\* ---------------------------------------------------- claims on interfaces

\* the half carries the signal: its record has a field of that name
Carries(half, name) ==
    /\ half # None
    /\ IsRec(half[1].typ)
    /\ \E i \in 1..Len(half[1].typ.rec.fields) :
          half[1].typ.rec.fields[i].name = name

\* C6: for every signal of the stream of an interface, the canonical port of
\* the signal has the interface's mode when the origin is Source and the
\* inverted mode when it is Sink; every half of the split fancy port that
\* carries the signal has the mode of that canonical port, and for each of
\* valid, ready, data, last, stai, endi and strb there is such a half; the dn
\* half has the interface's mode and the up half the inverted one.
C6_ModesAgree ==
    ipc = "split" =>
        /\ \A k \in 1..Len(cports) :
              /\ cports[k].mode =
                    (IF StreamSignals(iface.phys)[k].origin = "Source"
                     THEN iface.mode ELSE ModeReversed(iface.mode))
              /\ \A j \in 1..Len(halves), h \in 1..2 :
                    Carries(halves[j][h], StreamSignals(iface.phys)[k].name)
                        => halves[j][h][1].mode = cports[k].mode
              /\ StreamSignals(iface.phys)[k].name # "user" =>
                    \E j \in 1..Len(halves), h \in 1..2 :
                        Carries(halves[j][h], StreamSignals(iface.phys)[k].name)
        /\ \A j \in 1..Len(halves) :
              /\ halves[j][1] # None => halves[j][1][1].mode = iface.mode
              /\ halves[j][2] # None =>
                    halves[j][2][1].mode = ModeReversed(iface.mode)

\* an output interface with all eight signals, split into a dn half that
\* carries data and an up half that carries ready
C6_Witness ==
    /\ ipc = "split"
    /\ iface.mode = "Out"
    /\ Len(cports) = 8
    /\ Len(halves) = 1
    /\ Carries(halves[1][1], "data")
    /\ Carries(halves[1][1], "strb")
    /\ Carries(halves[1][2], "ready")
    /\ halves[1][2][1].mode = "In"

\* --------------------------------------------------- claims on Complexity

\* the level padded with zeros to n components
Padded(level, n) == [idx \in 1..n |-> IF idx <= Len(level) THEN level[idx] ELSE 0]

\* the positions at which the padded levels differ
Differing(a, b) ==
    { idx \in 1..max_len(a, b) :
        Padded(a, max_len(a, b))[idx] # Padded(b, max_len(a, b))[idx] }

\* the first of them
FirstDiffering(a, b) ==
    CHOOSE idx \in Differing(a, b) : \A other \in Differing(a, b) : idx <= other

\* lexicographic order of the padded levels
LexLess(a, b) ==
    /\ Differing(a, b) # {}
    /\ Padded(a, max_len(a, b))[FirstDiffering(a, b)]
          < Padded(b, max_len(a, b))[FirstDiffering(a, b)]

LessOrEqual(a, b) == Complexity_cmp(a, b) \in {"Less", "Equal"}

\* C11: eq is equality of the zero-padded levels, cmp is Less exactly when
\* the first differing padded component of self is the smaller one, eq holds
\* exactly when cmp is Equal, and cmp is a total order: cmp(b, a) is the
\* reverse of cmp(a, b), and a <= b and b <= c give a <= c.
C11_Lexicographic ==
    /\ cpc \in {"eq", "cmp"} =>
          ceq = Some(Padded(ca, max_len(ca, cb)) = Padded(cb, max_len(ca, cb)))
    /\ cpc = "cmp" =>
          /\ (ccmp = Some("Less")) = LexLess(ca, cb)
          /\ (ccmp = Some("Greater")) = LexLess(cb, ca)
          /\ (ccmp = Some("Equal")) = (ceq = Some(TRUE))
          /\ ccmp \in {Some("Less"), Some("Equal"), Some("Greater")}
          /\ (Complexity_cmp(cb, ca) = "Less") = (ccmp = Some("Greater"))
          /\ (Complexity_cmp(cb, ca) = "Equal") = (ccmp = Some("Equal"))
          /\ \A cc \in Levels :
                (LessOrEqual(ca, cb) /\ LessOrEqual(cb, cc)) => LessOrEqual(ca, cc)

\* [3] against [3,0]: equal, although the vectors differ; and the chain
\* [3] < [3,1] < [3,1,1] < [3,2] < [4] with [4] == [4,0,0]
C11_Witness ==
    /\ cpc = "cmp"
    /\ ca = <<3>>
    /\ cb = <<3, 0>>
    /\ ceq = Some(TRUE)
    /\ ccmp = Some("Equal")
    /\ Complexity_cmp(<<3>>, <<3, 1>>) = "Less"
    /\ Complexity_cmp(<<3, 1>>, <<3, 1, 1>>) = "Less"
    /\ Complexity_cmp(<<3, 1, 1>>, <<3, 2>>) = "Less"
    /\ Complexity_cmp(<<3, 2>>, <<4>>) = "Less"
    /\ Complexity_eq(<<4>>, <<4, 0, 0>>)

\* ------------------------------------------- claims on the framing signals

\* the least k with n <= 2^k, found by doubling
RECURSIVE Doublings(_, _, _)
Doublings(n, k, p) == IF p >= n THEN k ELSE Doublings(n, k + 1, 2 * p)
CeilLog2(n) == Doublings(n, 0, 1)

\* the width the signal list reports for a signal, 0 when it is absent
ListedWidth(n) == unwrap_or(sl[1][n], 0)

\* C12: with N lanes, dimensionality D and complexity major C, stai is
\* ceil(log2 N) bits when C >= 6 and N > 1, else 0; endi is ceil(log2 N) bits
\* when (C >= 5 or D >= 1) and N > 1, else 0; strb is N bits when C >= 7 or
\* D >= 1, else 0; last is D bits; and the four widths are those of the same
\* stream with the minor components of the complexity dropped.
C12_Thresholds ==
    PhysReturned =>
        LET N == ps.element_lanes
            D == ps.dimensionality
            C == ps.complexity[1]
            major_only == [ps EXCEPT !.complexity = <<C>>]
        IN  /\ ListedWidth("stai") = (IF C >= 6 /\ N > 1 THEN CeilLog2(N) ELSE 0)
            /\ ListedWidth("endi") =
                  (IF (C >= 5 \/ D >= 1) /\ N > 1 THEN CeilLog2(N) ELSE 0)
            /\ ListedWidth("strb") = (IF C >= 7 \/ D >= 1 THEN N ELSE 0)
            /\ ListedWidth("last") = D
            /\ stai_bit_count(ps) = ListedWidth("stai")
            /\ endi_bit_count(ps) = ListedWidth("endi")
            /\ strb_bit_count(ps) = ListedWidth("strb")
            /\ last_bit_count(ps) = ListedWidth("last")
            /\ stai_bit_count(major_only) = ListedWidth("stai")
            /\ endi_bit_count(major_only) = ListedWidth("endi")
            /\ strb_bit_count(major_only) = ListedWidth("strb")
            /\ last_bit_count(major_only) = ListedWidth("last")

\* three lanes at complexity 6.1 without dimensions: two bits of stai and of
\* endi, no strb, no last
C12_Witness ==
    /\ ppc = "listed"
    /\ ps.element_lanes = 3
    /\ ps.dimensionality = 0
    /\ ps.complexity = <<6, 1>>
    /\ sl[1].stai = Some(2)
    /\ sl[1].endi = Some(2)
    /\ sl[1].strb = None
    /\ sl[1].last = None

\* ------------------------------------------------------- claims on names

\* C13: the record types of two different (streamlet, interface) pairs of
\* valid names have different type identifiers.
C13_UniquePrefix ==
    npc = "typed" =>
        \A j, k \in 1..Len(npairs) :
            npairs[j] # npairs[k] => nids[j] # nids[k]

\* ------------------------------------------- claims on components, packages

\* the canonical ports of the interfaces of one mode, in declaration order
RECURSIVE CanonicalOfMode(_, _)
CanonicalOfMode(interfaces, mode) ==
    IF interfaces = <<>> THEN <<>>
    ELSE (IF interfaces[1].mode = mode
          THEN InterfaceCanonical(interfaces[1]) ELSE <<>>)
            \o CanonicalOfMode(Tail(interfaces), mode)

\* the fancy ports of the interfaces of one mode, in declaration order
RECURSIVE FancyOfMode(_, _, _)
FancyOfMode(s, interfaces, mode) ==
    IF interfaces = <<>> THEN <<>>
    ELSE (IF interfaces[1].mode = mode
          THEN interface_fancy(interfaces[1], interfaces[1].name,
                               s.name \o "_" \o interfaces[1].name)
          ELSE <<>>)
            \o FancyOfMode(s, Tail(interfaces), mode)

ClockAndReset ==
    <<[name |-> "clk", mode |-> "In", typ |-> [kind |-> "Bit"]],
      [name |-> "rst", mode |-> "In", typ |-> [kind |-> "Bit"]]>>

\* C14: the ports of the canonical component of a streamlet are clk and rst
\* (In, Bit), then the canonical ports of its input interfaces in declaration
\* order, then those of its output interfaces in declaration order; the ports
\* of its fancy component are clk and rst, then the fancy ports of the
\* inputs, then those of the outputs.
C14_PortLayout ==
    /\ lpc \in {"canonical", "fancy"} =>
          \A k \in 1..Len(lib.streamlets) :
              cpkg[1].components[k].ports =
                  ClockAndReset
                    \o CanonicalOfMode(lib.streamlets[k].interfaces, "In")
                    \o CanonicalOfMode(lib.streamlets[k].interfaces, "Out")
    /\ lpc = "fancy" =>
          \A k \in 1..Len(lib.streamlets) :
              /\ fpkg[1].components[2 * k - 1].ports =
                    cpkg[1].components[k].ports
              /\ fpkg[1].components[2 * k].ports =
                    ClockAndReset
                      \o FancyOfMode(lib.streamlets[k],
                                     lib.streamlets[k].interfaces, "In")
                      \o FancyOfMode(lib.streamlets[k],
                                     lib.streamlets[k].interfaces, "Out")

\* a streamlet that declares an output before an input: the ports of the
\* input b come right after clk and rst, those of the output a last
C14_Witness ==
    /\ lpc = "fancy"
    /\ Len(lib.streamlets) = 1
    /\ Len(lib.streamlets[1].interfaces) = 2
    /\ lib.streamlets[1].interfaces[1].mode = "Out"
    /\ lib.streamlets[1].interfaces[2].mode = "In"
    /\ Len(cpkg[1].components[1].ports) = 2 + 8 + 3
    /\ cpkg[1].components[1].ports[3].name = "b_valid"
    /\ cpkg[1].components[1].ports[Len(cpkg[1].components[1].ports)].name = "a_data"
    /\ fpkg[1].components[2].ports[3].name = "b"
    /\ fpkg[1].components[2].ports[Len(fpkg[1].components[2].ports)].name = "a"

\* C15: the fancy package holds, for every streamlet s in library order, the
\* canonical component s_com immediately followed by the fancy component s,
\* and nothing else; the canonical package holds exactly the component s_com
\* of every streamlet, in library order.
C15_PackageContents ==
    /\ lpc \in {"canonical", "fancy"} =>
          /\ Len(cpkg[1].components) = Len(lib.streamlets)
          /\ \A k \in 1..Len(lib.streamlets) :
                cpkg[1].components[k] =
                    StreamletCanonical(lib.streamlets[k], Some("com"))
          /\ \A k \in 1..Len(lib.streamlets) :
                cpkg[1].components[k].id = lib.streamlets[k].name \o "_com"
    /\ lpc = "fancy" =>
          /\ Len(fpkg[1].components) = 2 * Len(lib.streamlets)
          /\ \A k \in 1..Len(lib.streamlets) :
                /\ fpkg[1].components[2 * k - 1] = cpkg[1].components[k]
                /\ fpkg[1].components[2 * k - 1].id =
                      lib.streamlets[k].name \o "_com"
                /\ fpkg[1].components[2 * k].id = lib.streamlets[k].name
                /\ <<fpkg[1].components[2 * k]>> =
                      StreamletFancy(lib.streamlets[k], None)

\* the fancy package of a library of two streamlets: four components
C15_Witness ==
    /\ lpc = "fancy"
    /\ Len(lib.streamlets) = 2
    /\ [k \in 1..4 |-> fpkg[1].components[k].id]
          = <<"x_com", "x", "x_com_com", "x_com">>
    /\ [k \in 1..2 |-> cpkg[1].components[k].id] = <<"x_com", "x_com_com">>

\* ------------------------------------------------------ claims on usings

\* C16: a package, or an architecture built twice from the same package by
\* the same calls, declares the same library and use lines in the same order
\* both times.
C16_SameUsingsText ==
    upc = "second" => utext1 = utext2

\* ------------------------------------------------------ claims on slices

\* the identifiers of the slice entities of a package that is rendered alone
RenderedAlone(n) == [k \in 1..n |-> "slice_" \o alphabet_sequence(k - 1)]

\* C17: in every interleaving, the slice entities of each package have the
\* names they have when that package is rendered alone.
C17_SameAsAlone ==
    \A t \in Threads :
        tpc[t] # "idle" =>
            package_components[t] = RenderedAlone(Len(package_components[t]))

\* ---------------------------------------- claims on PhysicalStream::try_new

ZeroGiven ==
    \/ \E i \in 1..Len(tnargs.element_fields) : tnargs.element_fields[i].bits = 0
    \/ \E i \in 1..Len(tnargs.user) : tnargs.user[i].bits = 0
    \/ tnargs.element_lanes = 0

HasDuplicate(given) ==
    \E i, j \in 1..Len(given) : i # j /\ given[i].name = given[j].name

DuplicateGiven ==
    HasDuplicate(tnargs.element_fields) \/ HasDuplicate(tnargs.user)

PathNamesGiven ==
    /\ \A i \in 1..Len(tnargs.element_fields) : tnargs.element_fields[i].name # ""
    /\ \A i \in 1..Len(tnargs.user) : tnargs.user[i].name # ""

\* C18: try_new fails with InvalidArgument when a width or the lane count
\* is zero, with UnexpectedDuplicate when two element fields or two user
\* fields have the same path name (with either error when both are the
\* case), and in every other case succeeds with the fields as given, in the
\* order given.
C18_TryNewOutcome ==
    (tnpc = "returned" /\ PathNamesGiven) =>
        LET res == tnres[1]
        IN  /\ (ZeroGiven /\ ~DuplicateGiven) => res.err = Some("InvalidArgument")
            /\ (DuplicateGiven /\ ~ZeroGiven) => res.err = Some("UnexpectedDuplicate")
            /\ (ZeroGiven /\ DuplicateGiven) =>
                    res.err \in {Some("InvalidArgument"), Some("UnexpectedDuplicate")}
            /\ (~ZeroGiven /\ ~DuplicateGiven) =>
                    /\ res.err = None
                    /\ res.value[1].element_fields = tnargs.element_fields
                    /\ res.value[1].user = tnargs.user

\* ------------------------------------------------ claims on with_throughput

\* ceil(t) of the throughput t = wthr / ThroughputDen, by counting up
CeilOf(n) == CHOOSE c \in 0..(n + 1) :
                /\ c * ThroughputDen >= n
                /\ (c - 1) * ThroughputDen < n

\* C20: with_throughput fails with InvalidArgument when t is larger than
\* the maximum lane count; returns T unchanged when ceil(t) <= 1; and
\* otherwise returns the array <identity>_array of ceil(t) elements of T,
\* a bit vector of width ceil(t) when T is Bit.
C20_Lanes ==
    wpc = "returned" =>
        IF wthr > MaxWord * ThroughputDen
        THEN wres[1].err = Some("InvalidArgument")
        ELSE IF CeilOf(wthr) <= 1
        THEN wres[1] = TryOk(wtyp)
        ELSE IF wtyp = Bit
        THEN wres[1] = TryOk(BitVec(CeilOf(wthr)))
        ELSE wres[1] = TryOk(TArray(Array(wid \o "_array", wtyp, CeilOf(wthr))))

\* ---------------------------------------------------- claims on the stages

\* the outcome is a panic
Aborted(r) ==
    \/ "panic" \in DOMAIN r /\ r.panic # None
    \/ "text" \in DOMAIN r /\ r.err \in {Some(UnwrapNone), Some(Unreachable)}

\* C19: no stage aborts: fancy rendering of a stream and declaration of a
\* record, an array or a port list return a value or an Error; a throughput
\* that exceeds the lane count surfaces InvalidArgument from the fancy
\* rendering; a record whose fields are all reversed is declared with its
\* up half only.
C19_NoAbort ==
    /\ xpc \in {"declared", "ports", "fancy"} => ~Aborted(xres[1])
    /\ (xpc = "fancy" /\ exceeds_u32_MAX(xthr)) =>
            xres[1].err = Some("InvalidArgument")
    /\ (xpc = "declared" /\ IsRec(xtyp) /\ xtyp.rec.fields # <<>>
            /\ AllReversed(xtyp)) =>
            xres[1] = declare_rec(append_name_nested(RecordSplit(xtyp.rec)[2][1], "up"))

\* ------------------------------------------------- claims on PortMapping

\* the identifiers the last call could refer to, and the mappings it works on
CalledOn == IF mcall[1].op = "map_port" THEN Keys(mports) ELSE Keys(generics)
CalledMappings == IF mcall[1].op = "map_port" THEN mappings ELSE generic_mappings

\* C21: map_port and map_generic with an identifier that is no port
\* (generic) of the component fail with BackEndError and leave the mappings
\* as they were.
C21_UnknownIdentifier ==
    (mcall # None /\ mcall[1].identifier \notin CalledOn) =>
        /\ mcall[1].result.err = Some("BackEndError")
        /\ CalledMappings = mcall[1].before

\* the identifiers of the ports of the component, the halves of a port with
\* both directions counted separately
ComponentPortIds ==
    UNION { IF PortHasReversed(mcomp[i])
            THEN { cat(mcomp[i].name, "dn") : k \in 1..Len(TypeSplit(mcomp[i].typ)[1]) }
                   \cup { cat(mcomp[i].name, "up") : k \in 1..Len(TypeSplit(mcomp[i].typ)[2]) }
            ELSE { mcomp[i].name } : i \in 1..Len(mcomp) }

MixesDirections == qhalves[1] # None /\ qhalves[2] # None

\* the identifiers of the composite types of a half of the split type, each
\* with the suffix of the half and _type
SuffixedOnce(half, with) ==
    IF half = None THEN {}
    ELSE { cat(cat(IF IsRec(TypeNestedTypes(half[1])[i])
                   THEN TypeNestedTypes(half[1])[i].rec.id
                   ELSE TypeNestedTypes(half[1])[i].arr.id, with), "type") :
             i \in 1..Len(TypeNestedTypes(half[1])) }

\* C22: Port::split of a port p of mode m whose record type mixes
\* directions returns p_dn of mode m and p_up of the opposite mode; declared,
\* every type name of that type has the suffix of its half, once.
C22_OneSuffix ==
    /\ (qpc \in {"split", "declared"} /\ MixesDirections) =>
          /\ qhalves[1][1].name = qport.name \o "_dn"
          /\ qhalves[1][1].mode = qport.mode
          /\ qhalves[2][1].name = qport.name \o "_up"
          /\ qhalves[2][1].mode = ModeReversed(qport.mode)
    /\ (qpc = "declared" /\ MixesDirections) =>
          /\ qdecl[1].err = None
          /\ { DeclaredIds(qdecl[1].text)[i] : i \in 1..Len(DeclaredIds(qdecl[1].text)) }
                = SuffixedOnce(TypeSplit(qport.typ)[1], "dn")
                    \cup SuffixedOnce(TypeSplit(qport.typ)[2], "up")

\* ------------------------------------------- claims on declaration order

\* the texts of the types that need no declaration
ScalarTexts == { BitDeclare(Bit) } \cup { BitDeclare(BitVec(w)) : w \in 0..MaxWidth }

\* the type identifiers an item of the text refers to: the types of the
\* fields of a record, the element type of an array, the types of the ports
\* of a component
References(item) ==
    (CASE "fields" \in DOMAIN item ->
              { item.fields[i].typ : i \in 1..Len(item.fields) }
       [] "of" \in DOMAIN item -> { item.of }
       [] "ports" \in DOMAIN item ->
              { item.ports[i].typ : i \in 1..Len(item.ports) }
       [] OTHER -> {}) \ ScalarTexts

\* the identifiers declared before item i of the text
DeclaredBefore(text, i) ==
    { text[j].id : j \in { k \in 1..(i - 1) : IsTypeDeclaration(text[k]) } }

\* C23: in the text of Package::declare every type identifier that a
\* record field, an array element or a component port refers to is declared
\* earlier in the text: nested types before the types that contain them,
\* and the types of a component, dn and up halves included, before the
\* component.
C23_DeclaredBeforeUse ==
    gpc \in {"declare", "write", "opened", "wrappers"} =>
        \A i \in 1..Len(dresult) :
            References(dresult[i]) \subseteq DeclaredBefore(dresult, i)

\* a finished text with a record that refers to a nested record, and a
\* component with a port of a dn half and a port of an up half
C23_Witness ==
    /\ gpc = "write"
    /\ \E i \in 1..Len(dresult) :
          "fields" \in DOMAIN dresult[i] /\ References(dresult[i]) # {}
    /\ \E i \in 1..Len(dresult) :
          /\ "ports" \in DOMAIN dresult[i]
          /\ {"test_dn_type", "test_up_type"} \subseteq References(dresult[i])
    /\ \E i \in 1..Len(dresult) :
          "of" \in DOMAIN dresult[i] /\ References(dresult[i]) # {}

\* ------------------------------------- claims on the halves of a split

RECURSIVE ReversedFree(_)
\* no field at any depth is reversed, the fields of the records that are
\* elements of arrays included
ReversedFree(t) ==
    CASE IsRec(t) -> \A f \in FieldsOf(t) : ~f.reversed /\ ReversedFree(f.typ)
      [] t.kind = "Array" -> ReversedFree(t.arr.typ)
      [] OTHER -> TRUE

\* C24: neither half returned by split of a type, an array or a port has a
\* reversed field at any depth, the fields of records that are elements of
\* an array-typed field included.
C24_HalvesReversedFree ==
    spc \in {"type", "array", "port"} =>
        \A k \in 1..2 :
            HalfType(sres[k]) # None => ReversedFree(HalfType(sres[k])[1])

\* ------------------------------------------- claims on combining usings

\* the (library, using) pairs of a Usings
UsingPairs(u) ==
    UNION { { <<u[k].library, x>> : x \in u[k].usings } : k \in 1..Len(u) }

\* C25: Usings::combine merges: afterwards the usings hold every pair they
\* held before and every pair of the other; the usings of an architecture
\* never lose an entry.
C25_CombineMerges ==
    [][/\ UsingPairs(usings) \subseteq UsingPairs(usings')
       /\ AddDeclarationOrStatement =>
              \E other \in ObjectUsings :
                  UsingPairs(usings') = UsingPairs(usings) \cup UsingPairs(other)]_vars

\* ------------------------------------------- claims on Fields::insert

\* C28: Fields::insert of a path name the Fields already hold returns
\* UnexpectedDuplicate and leaves the Fields exactly as they were.
C28_DuplicateLeavesFields ==
    (fcall # None /\ \E k \in 1..Len(fbefore) : fbefore[k].name = fcall[1].name) =>
        /\ fcall[1].result = TryErr("UnexpectedDuplicate")
        /\ fmap = fbefore

\* ------------------------------------------- claims on exact bit counts

\* C27: data_bit_count is total and exact, the sum of the widths of the
\* element fields times the number of lanes, and user_bit_count is the sum
\* of the widths of the user fields; neither wraps around modulo the word
\* nor aborts.
C27_ExactBitCounts ==
    /\ ~(ppc = "panicked" /\ sl = None)
    /\ sl # None =>
          /\ sl[1].data = opt(ExactSum(ps.element_fields) * ps.element_lanes)
          /\ sl[1].user = opt(ExactSum(ps.user))

\* ------------------------------------- claims on canonical port names

\* C29: the ports of the canonical component of a streamlet whose
\* interfaces have valid, pairwise different names have pairwise different
\* names: none is clk or rst, and interface name, path and signal name never
\* concatenate to the same port name twice.
C29_DistinctPortNames ==
    kpc = "canonical" =>
        \A i, j \in 1..Len(kports) : i # j => kports[i] # kports[j]

\* ------------------------------------- claims on the two renderings

\* C30: for a stream that is not null the record of the fancy rendering has
\* exactly one field for each signal of the signal list of the stream
\* (valid, ready, data and those present of last, stai, endi, strb, user),
\* in that order, and a field is reversed exactly when the origin of the
\* signal is Sink.
C30_SameSignals ==
    (ipc \in {"fancy", "split"} /\ ~StreamIsNull(iface.phys)) =>
        /\ Len(fports) = 1
        /\ IsRec(fports[1].typ)
        /\ [k \in 1..Len(fports[1].typ.rec.fields) |->
               <<fports[1].typ.rec.fields[k].name,
                 fports[1].typ.rec.fields[k].reversed>>]
             = [k \in 1..Len(StreamSignals(iface.phys)) |->
                  <<StreamSignals(iface.phys)[k].name,
                    StreamSignals(iface.phys)[k].origin = "Sink">>]

====
